---- MODULE Spec2Model ----
(***************************************************************************)
(* Scheduling passes of qiskit (scheduled-circuit branch) and what they    *)
(* rest on:                                                                *)
(*   - ASAPSchedule.run          (transpiler/passes/scheduling/asap.py)    *)
(*   - ASAPTimestepSchedule.run  (.../scheduling/asaptimestep.py)          *)
(*   - ALAPTimestepSchedule.run  (.../scheduling/alaptimestep.py)          *)
(*   - InstructionDurations      (transpiler/instruction_durations.py)     *)
(*   - the sequencers            (compiler/sequence.py,                    *)
(*                                scheduler/methods/sequence.py)           *)
(* A circuit is a sequence of operations in program order; two operations  *)
(* are ordered by the DAG exactly when they share a qubit.  Durations are  *)
(* integers in units of dt.                                                *)
(***************************************************************************)
EXTENDS Integers, Sequences, FiniteSets, TLC

\* ---------------------------------------------------------------- bounds
NumQubits == 2      \* circuits declare 1..NumQubits qubits
MaxOps == 3         \* circuits hold 0..MaxOps operations
MaxDur == 3         \* gate lengths and delay durations are 1 or MaxDur

None == -1          \* Python's None in an integer slot

VARIABLES
    dag,                    \* the pass's input: [num_qubits, ops]
    qregs,                  \* the names of the input's quantum registers (dag.qregs)
    policy,                 \* the pass: "asap", "alap" (mirror, schedule, mirror back),
                            \* "timestep", "alaptimestep"
    pass,                   \* 1: first scheduling call, 2: call on its own output
    pc,                     \* "start", "done" (a schedule was returned), "error"
    raised,                 \* the exception the call ended with ("" for none)
    qubit_time_available,   \* asap.py: the defaultdict(int), as a function on its keys
    new_dag,                \* the output DAG: sequence of placed entries
    circuit_duration,       \* new_dag.duration (None until set)
    first_dag,              \* the output of the first call, kept by the caller
    \* locals of ASAPTimestepSchedule.run
    residual_dag,           \* the deep copy: [ops, removed]
    frontier,               \* residual_dag.leading_op_nodes(), as a set of indices
    k,                      \* the loop counter
    timestep_duration,      \* of the latest iteration
    timelimit,              \* per-qubit budget left by the latest iteration
    elapsed,                \* the local circuit_duration, summed over the iterations
    \* an InstructionDurations object and the latest call on it
    duration_dic,           \* self.duration_dic: (name, qubits) -> duration
    dt,                     \* self.dt (None if not given)
    call,                   \* the latest call: [op, name, qubits, entries, dt]
    result,                 \* what it returned or raised: [kind, value, key]
    sequenced,              \* the sequencer's call on new_dag, once made:
                            \* [by, status, start_times, timed_schedules, duration]
    \* qiskit.pulse.alignment
    instructions,           \* *instructions: the components to align, in order
    aligned,                \* the schedule returned: a set of timed instructions
    \* TimestepsASAPSchedule.run on the same circuit
    quantized               \* what it returned or raised: [status, raised, new_dag, duration]

asap_vars == <<policy, qregs, pass, qubit_time_available, first_dag>>
timestep_vars == <<residual_dag, frontier, k, timestep_duration, timelimit, elapsed>>
table_vars == <<duration_dic, dt, call, result>>
pulse_vars == <<instructions, aligned>>
vars == <<dag, pc, raised, new_dag, circuit_duration, asap_vars, timestep_vars, table_vars,
          sequenced, pulse_vars, quantized>>

\* TimestepsASAPSchedule.run has not been called
NotRun == [status |-> "", raised |-> "", new_dag |-> <<>>, duration |-> None]

\* no alignment call is in progress
NoAlignment ==
    /\ instructions = <<>>
    /\ aligned = {}

\* ---------------------------------------------------------------- helpers
Max(S) == CHOOSE x \in S : \A y \in S : y <= x
Min(S) == CHOOSE x \in S : \A y \in S : x <= y
Range(s) == {s[i] : i \in 1..Len(s)}
Reverse(s) == [i \in 1..Len(s) |-> s[Len(s) + 1 - i]]

RECURSIVE SumSeq(_)
SumSeq(s) == IF s = <<>> THEN 0 ELSE Head(s) + SumSeq(Tail(s))

\* ---------------------------------------------------------------- circuits
QubitsOf(nq) == 0..(nq - 1)

\* Physical circuits: two-qubit gates act on neighbouring qubits of a line
\* coupling map.
QargsOf(nq) ==
    {<<q>> : q \in QubitsOf(nq)} \cup {<<q, q + 1>> : q \in QubitsOf(nq - 1)}

\* a short and a long duration
Durations == {1, MaxDur}

\* A gate has no duration of its own until a pass resolves it; len is what the
\* backend reports for it.  A Delay carries its duration from construction.
GateOps(nq) ==
    [name : {"gate"}, qargs : QargsOf(nq), len : Durations, duration : {None}]

DelayOp(q, d) == [name |-> "delay", qargs |-> <<q>>, len |-> d, duration |-> d]

DelayOps(nq) == {DelayOp(q, d) : q \in QubitsOf(nq), d \in Durations}

OpsOf(nq) == GateOps(nq) \cup DelayOps(nq)

\* a single-qubit gate the backend reports no length for
UnknownOps(nq) ==
    [name : {"gate"}, qargs : {<<q>> : q \in QubitsOf(nq)}, len : {None},
     duration : {None}]

Circuits ==
    UNION {[num_qubits : {nq},
            ops : UNION {[1..n -> OpsOf(nq)] : n \in 0..MaxOps}] : nq \in 1..NumQubits}

On(e, q) == q \in Range(e.qargs)

\* DAGCircuit edges: i precedes j when i is earlier and they share a qubit.
Shares(a, b) == Range(a.qargs) \cap Range(b.qargs) # {}

\* ---------------------------------------------------------------- asap.py
\* DurationMapper.get: the operation's own duration, else the backend's.  None
\* stands for the exception gate_length raises for a gate it does not know.
DurationMapperGet(op) == IF op.duration # None THEN op.duration ELSE op.len

Missing(op) == DurationMapperGet(op) = None

\* reading a defaultdict(int)
TimeAvailable(qta, q) == IF q \in DOMAIN qta THEN qta[q] ELSE 0

\* mutant: the earliest instead of the latest of the qubits' free ticks
StartTimeMin(qta, qargs) == Min({TimeAvailable(qta, q) : q \in Range(qargs)})

StartTime(qta, qargs) == Max({TimeAvailable(qta, q) : q \in Range(qargs)})

Entry(name, qargs, duration, start, node) ==
    [name |-> name, qargs |-> qargs, duration |-> duration, start |-> start,
     node |-> node]

\* mutant: pads a qubit that is already at `until`
NeedsPadInclusive(qta, q, until) == TimeAvailable(qta, q) <= until

NeedsPad(qta, q, until) == TimeAvailable(qta, q) < until

\* mutant: no padding at all
PadWithDelaysNever(qta, qubits, until) == <<>>

\* pad_with_delays(qubits, until): one Delay per lagging qubit, in order
RECURSIVE PadWithDelays(_, _, _)
PadWithDelays(qta, qubits, until) ==
    IF qubits = <<>> THEN <<>>
    ELSE LET q == Head(qubits)
             rest == PadWithDelays(qta, Tail(qubits), until)
         IN  IF NeedsPad(qta, q, until)
             THEN <<Entry("delay", <<q>>, until - TimeAvailable(qta, q),
                          TimeAvailable(qta, q), 0)>> \o rest
             ELSE rest

\* a set of qubits as a sequence, in increasing order (dict key order is not modelled)
RECURSIVE SeqOfSet(_)
SeqOfSet(S) == IF S = {} THEN <<>> ELSE <<Min(S)>> \o SeqOfSet(S \ {Min(S)})

\* mutant: leaves a tick between an operation and the next
StopTimeLate(start_time, duration) == start_time + duration + 1

StopTime(start_time, duration) == start_time + duration

\* mutant: advances only the first qubit of the operation
UpdateTimeTableFirst(qta, qargs, stop_time) ==
    [q \in (DOMAIN qta) \cup Range(qargs) |->
        IF q = qargs[1] THEN stop_time ELSE TimeAvailable(qta, q)]

\* `for q in node.qargs: qubit_time_available[q] = stop_time`
UpdateTimeTable(qta, qargs, stop_time) ==
    [q \in (DOMAIN qta) \cup Range(qargs) |->
        IF q \in Range(qargs) THEN stop_time ELSE qta[q]]

\* mutant: the pass keeps the resolved duration to itself
StoreDurationNowhere(ops, i, duration) == ops

\* `node.op.duration = duration  # mutate original operation!`
StoreDuration(ops, i, duration) == [ops EXCEPT ![i].duration = duration]

\* the body of `for node in dag.topological_op_nodes()`, for node i.
\* st holds the loop's state: the time table, the output so far, the input's
\* operations (the pass stores each resolved duration on the operation).
\* When self.durations.get(node) raises, the loop ends there: the padding for
\* the node is already in the output, the node is not.
ScheduleNode(st, i) ==
    LET node == st.ops[i]
        start_time == StartTime(st.qta, node.qargs)
        pads == PadWithDelays(st.qta, node.qargs, start_time)
        duration == DurationMapperGet(node)
        stop_time == StopTime(start_time, duration)
    IN  IF Missing(node)
        THEN [st EXCEPT !.new_dag = st.new_dag \o pads, !.failed = TRUE]
        ELSE [qta |-> UpdateTimeTable(st.qta, node.qargs, stop_time),
              new_dag |-> st.new_dag \o pads
                             \o <<Entry(node.name, node.qargs, duration, start_time, i)>>,
              ops |-> StoreDuration(st.ops, i, duration),
              failed |-> FALSE]

\* the loop over the nodes from i on; program order is a topological order, and
\* the per-qubit order, which is all the body reads, is the same in every one
RECURSIVE ScheduleNodes(_, _)
ScheduleNodes(st, i) ==
    IF i > Len(st.ops) \/ st.failed THEN st
    ELSE ScheduleNodes(ScheduleNode(st, i), i + 1)

WorkingQubits(qta) == DOMAIN qta

\* mutant: the earliest instead of the latest finish
CircuitDurationMin(qta) == Min({qta[q] : q \in WorkingQubits(qta)})

CircuitDuration(qta) == Max({qta[q] : q \in WorkingQubits(qta)})

\* the exceptions of the passes
NotPhysical == "runs on physical circuits only"
MissingDuration == "BackendPropertyError"
EmptyMax == "max() arg is an empty sequence"
IterationBound == "Unknown error: #iteration reached max_n_iteration"

\* ASAPSchedule.run on a physical circuit.  A gate without a length ends the call
\* with the lookup's exception; max() of no working qubit (a circuit without
\* operations) raises ValueError.  Then ok is FALSE, new_dag is what the call had
\* built in its local, and new_dag.duration was never set.
AsapRun(d) ==
    LET st == ScheduleNodes([qta |-> <<>>, new_dag |-> <<>>, ops |-> d.ops,
                             failed |-> FALSE], 1)
    IN  IF st.failed
        THEN [ok |-> FALSE, raised |-> MissingDuration, qta |-> st.qta,
              new_dag |-> st.new_dag, duration |-> None, ops |-> st.ops]
        ELSE IF WorkingQubits(st.qta) = {}
        THEN [ok |-> FALSE, raised |-> EmptyMax, qta |-> st.qta, new_dag |-> st.new_dag,
              duration |-> None, ops |-> st.ops]
        ELSE LET until == CircuitDuration(st.qta)
             IN  [ok |-> TRUE, raised |-> "", qta |-> st.qta,
                  new_dag |-> st.new_dag \o
                      PadWithDelays(st.qta, SeqOfSet(WorkingQubits(st.qta)), until),
                  duration |-> until,
                  ops |-> st.ops]

\* mutant: a call that raised hands its output back all the same
OutcomeDone(ok) == "done"

\* a call that raised returns nothing; one that reached `return new_dag` is done
Outcome(ok) == IF ok THEN "done" ELSE "error"

\* mutant: any single register will do
IsPhysicalAnyName(regs) == Cardinality(regs) = 1

\* `if len(dag.qregs) != 1 or dag.qregs.get('q', None) is None: raise`
IsPhysical(regs) == ~(Cardinality(regs) # 1 \/ "q" \notin regs)

\* a physical circuit; one register of another name; a second register
QregsOptions == {{"q"}, {"qr"}, {"q", "anc"}}

\* the sequencer has not been called
NotSequenced ==
    [by |-> "", status |-> "", start_times |-> <<>>, timed_schedules |-> <<>>,
     duration |-> None]

\* no InstructionDurations object is in play
NoCall == [op |-> "", name |-> "", qubits |-> <<>>, entries |-> <<>>, dt |-> None]
NoTable ==
    /\ duration_dic = <<>>
    /\ dt = None
    /\ call = NoCall
    /\ result = [kind |-> "", value |-> None, key |-> <<>>]

Init ==
    /\ dag \in Circuits
    /\ qregs = {"q"}
    /\ raised = ""
    /\ policy \in {"asap", "alap"}
    /\ pass = 1
    /\ pc = "start"
    /\ qubit_time_available = <<>>
    /\ new_dag = <<>>
    /\ circuit_duration = None
    /\ first_dag = <<>>
    /\ residual_dag = <<>>
    /\ frontier = {}
    /\ k = 0
    /\ timestep_duration = None
    /\ timelimit = <<>>
    /\ elapsed = 0
    /\ NoTable
    /\ sequenced = NotSequenced
    /\ NoAlignment
    /\ quantized = NotRun

\* transpile(..., scheduling_method='asap'): one call of ASAPSchedule.run
Run ==
    /\ pc = "start"
    /\ policy = "asap"
    /\ IF ~IsPhysical(qregs)
       THEN /\ pc' = "error"
            /\ raised' = NotPhysical
            /\ UNCHANGED <<dag, qubit_time_available, new_dag, circuit_duration>>
       ELSE \E r \in {AsapRun(dag)} :
               /\ dag' = [dag EXCEPT !.ops = r.ops]
               /\ qubit_time_available' = r.qta
               /\ new_dag' = r.new_dag
               /\ circuit_duration' = r.duration
               /\ pc' = Outcome(r.ok)
               /\ raised' = r.raised
    /\ UNCHANGED <<table_vars, sequenced, pulse_vars, quantized, policy, qregs, pass, first_dag, timestep_vars>>

\* ------------------------------------------------- mirror-derived ALAP (spec 4.3)
\* dag.mirror(): the same operations, every edge reversed.
MirrorOps(ops) == Reverse(ops)

\* start of an entry once the schedule is read backwards
MirrorStart(total, e) == total - e.start - e.duration

\* reverse the schedule; entries name the operations of the unmirrored circuit again
MirrorSchedule(sched, total, n) ==
    [x \in 1..Len(sched) |->
        LET e == sched[Len(sched) + 1 - x]
        IN  [e EXCEPT !.start = MirrorStart(total, e),
                      !.node = IF e.node = 0 THEN 0 ELSE n + 1 - e.node]]

\* transpile(..., scheduling_method='alap'): mirror, schedule forward, mirror back
RunAlap ==
    /\ pc = "start"
    /\ policy = "alap"
    /\ IF ~IsPhysical(qregs)
       THEN /\ pc' = "error"
            /\ raised' = NotPhysical
            /\ UNCHANGED <<dag, qubit_time_available, new_dag, circuit_duration>>
       ELSE \E r \in {AsapRun([dag EXCEPT !.ops = MirrorOps(@)])} :
               /\ dag' = [dag EXCEPT !.ops = MirrorOps(r.ops)]
               /\ qubit_time_available' = r.qta
               /\ new_dag' = IF r.ok
                              THEN MirrorSchedule(r.new_dag, r.duration, Len(dag.ops))
                              ELSE r.new_dag
               /\ circuit_duration' = r.duration
               /\ pc' = Outcome(r.ok)
               /\ raised' = r.raised
    /\ UNCHANGED <<table_vars, sequenced, pulse_vars, quantized, policy, qregs, pass, first_dag, timestep_vars>>

\* ------------------------------------------------- scheduling a scheduled circuit
\* The operations of a schedule, as a circuit: the input's operation objects (with
\* the duration the pass stored on them) and the padding Delays.
OpOfEntry(ops, e) ==
    IF e.node # 0 THEN ops[e.node]
    ELSE IF "len" \in DOMAIN e
         THEN [name |-> e.name, qargs |-> e.qargs, len |-> e.len,
               duration |-> e.duration]
         ELSE DelayOp(e.qargs[1], e.duration)

ScheduledCircuit(d, sched) ==
    [d EXCEPT !.ops = [x \in 1..Len(sched) |-> OpOfEntry(d.ops, sched[x])]]

\* the caller runs ASAPSchedule again, on the circuit the first call returned
\* (its registers are those that passed the physical check in the first call)
Reschedule ==
    /\ pc \in {"done", "appended"}
    /\ pass = 1
    /\ policy = "asap"
    /\ \E r \in {AsapRun(ScheduledCircuit(dag, new_dag))} :
           /\ dag' = [dag EXCEPT !.ops = r.ops]
           /\ qubit_time_available' = r.qta
           /\ new_dag' = r.new_dag
           /\ circuit_duration' = r.duration
           /\ pc' = Outcome(r.ok)
           /\ raised' = r.raised
    /\ first_dag' = [ops |-> new_dag, duration |-> circuit_duration]
    /\ pass' = 2
    /\ UNCHANGED <<table_vars, sequenced, pulse_vars, quantized, policy, qregs, timestep_vars>>

Next ==
    \/ Run
    \/ RunAlap
    \/ Reschedule

Spec == Init /\ [][Next]_vars

\* ------------------------------------------------- appending to a schedule (spec 6)
\* the caller may append this many operations to a schedule it was handed
MaxAppend == 2

\* what the caller appends: a single-qubit gate of the short length
AppendOps(nq) == {op \in GateOps(nq) : op.len = 1 /\ Len(op.qargs) = 1}

\* the appended operation in the schedule: not an operation of the input, and
\* without a start tick
AppendedEntry(op) ==
    [name |-> op.name, qargs |-> op.qargs, duration |-> op.duration, start |-> None,
     node |-> 0, len |-> op.len]

Unscheduled(sched) == {x \in 1..Len(sched) : sched[x].start = None}

\* mutant: the cached duration survives the append
InvalidatedKeeps(duration) == duration

\* QuantumCircuit.append resets the cached duration
Invalidated(duration) == None

\* scheduled.h(0): the caller appends an operation to the returned schedule
AppendOperation ==
    /\ pc \in {"done", "appended"}
    /\ pass = 1
    /\ Cardinality(Unscheduled(new_dag)) < MaxAppend
    /\ \E op \in AppendOps(dag.num_qubits) :
           new_dag' = Append(new_dag, AppendedEntry(op))
    /\ circuit_duration' = Invalidated(circuit_duration)
    /\ pc' = "appended"
    /\ UNCHANGED <<dag, raised, asap_vars, timestep_vars,
                   table_vars, sequenced, pulse_vars, quantized>>

InitAppend ==
    /\ Init
    /\ Len(dag.ops) < MaxOps

NextAppend ==
    \/ Run
    \/ RunAlap
    \/ AppendOperation
    \/ Reschedule

SpecAppend == InitAppend /\ [][NextAppend]_vars

\* ---------------------------------------------------------------- asaptimestep.py
\* An entry of the grouper's output.  A Timestep marker has duration 0 and carries
\* its length as its parameter; step is the outer iteration that appended the entry.
TsEntry(name, qargs, duration, node, length, step) ==
    [name |-> name, qargs |-> qargs, duration |-> duration, node |-> node,
     length |-> length, step |-> step]

\* `for n in residual_dag.op_nodes(): n.op.duration = self.durations.get(n)`
\* mutant: `residual_dag = dag`, the pass writes to the input's own operations
InputAliased(d, ops) == [d EXCEPT !.ops = ops]

\* `residual_dag = copy.deepcopy(dag)`: the input after the pass has written ops
\* to the operations of its residual DAG
InputAfter(d, ops) == d

\* (it ends at the first operation whose lookup raises)
ResolveDurations(ops) ==
    [i \in 1..Len(ops) |->
        IF \E j \in 1..(i - 1) : Missing(ops[j]) THEN ops[i]
        ELSE [ops[i] EXCEPT !.duration = DurationMapperGet(ops[i])]]

Unresolved(ops) == \E i \in 1..Len(ops) : Missing(ops[i])

\* residual_dag.leading_op_nodes(): the nodes left that have no predecessor left
LeadingOpNodes(ops, removed) ==
    {i \in (1..Len(ops)) \ removed :
        \A j \in (1..(i - 1)) \ removed : ~Shares(ops[j], ops[i])}

MaxNIteration(d) == Len(d.ops) * d.num_qubits

IsDelay(op) == op.name = "delay"

\* mutant: the longest delay of a delay-only frontier
DominantDurationMost(ops, front) ==
    Max({ops[n].duration : n \in front})

\* the most dominant non-delay node's duration; if all are delays, the least
DominantDuration(ops, front) ==
    LET no_delays == {n \in front : ~IsDelay(ops[n])}
        delays == {n \in front : IsDelay(ops[n])}
    IN  IF no_delays # {}
        THEN Max({ops[n].duration : n \in no_delays})
        ELSE Min({ops[n].duration : n \in delays})

\* mutant: `<` for `<=`
FirstNewsShorter(ops, front, ts) == {n \in front : ops[n].duration < ts}

\* `news = [n for n in frontier if n.op.duration <= timestep_duration]`
FirstNews(ops, front, ts) == {n \in front : ops[n].duration <= ts}

\* `if n.op.duration <= timelimit[q]`: q is whatever the loop over the admitted
\* nodes' qargs left in it
Fits(ops, n, tl, q) == ops[n].duration <= tl[q]

RECURSIVE SumDurations(_, _)
SumDurations(ops, S) ==
    IF S = {} THEN 0
    ELSE LET n == Min(S) IN ops[n].duration + SumDurations(ops, S \ {n})

\* `for n in news: for q in n.qargs: timelimit[q] -= n.op.duration`
Spend(ops, tl, news) ==
    [q \in DOMAIN tl |-> tl[q] - SumDurations(ops, {n \in news : q \in Range(ops[n].qargs)})]

\* one pass of `while news:`; last is the node the frontier enumerated last
AdmitNews(ops, st, last) ==
    LET tl == Spend(ops, st.timelimit, st.news)
        removed == st.removed \cup st.news
        q == ops[last].qargs[Len(ops[last].qargs)]
        front == LeadingOpNodes(ops, removed)
    IN  [removed |-> removed,
         timelimit |-> tl,
         dones |-> st.dones \o SeqOfSet(st.news),
         frontier |-> front,
         news |-> {n \in front : Fits(ops, n, tl, q)}]

\* the states `while news:` can end in, over the orders the frontier may come in
RECURSIVE Admit(_, _)
Admit(ops, st) ==
    IF st.news = {} THEN {st}
    ELSE UNION {Admit(ops, AdmitNews(ops, st, last)) : last \in st.news}

\* mutant: truncates twice what is left
SplitDelaysTwice(ops, front, tl) ==
    [n \in 1..Len(ops) |->
        IF n \in front /\ IsDelay(ops[n]) /\ tl[ops[n].qargs[1]] > 0
        THEN [ops[n] EXCEPT !.duration = @ - 2 * tl[ops[n].qargs[1]]]
        ELSE ops[n]]

\* split delays in frontier: truncate by what is left on the delay's qubit
SplitDelays(ops, front, tl) ==
    [n \in 1..Len(ops) |->
        IF n \in front /\ IsDelay(ops[n]) /\ tl[ops[n].qargs[1]] > 0
        THEN [ops[n] EXCEPT !.duration = @ - tl[ops[n].qargs[1]]]
        ELSE ops[n]]

ScheduleDones(ops, dones, step) ==
    [i \in 1..Len(dones) |->
        TsEntry(ops[dones[i]].name, ops[dones[i]].qargs, ops[dones[i]].duration,
                dones[i], 0, step)]

\* pad with delays if positive idle duration in the qubit
RECURSIVE IdlePads(_, _, _)
IdlePads(tl, qubits, step) ==
    IF qubits = <<>> THEN <<>>
    ELSE LET q == Head(qubits)
             rest == IdlePads(tl, Tail(qubits), step)
         IN  IF tl[q] > 0
             THEN <<TsEntry("delay", <<q>>, tl[q], 0, 0, step)>> \o rest
             ELSE rest

TimestepMarker(nq, length, step) ==
    TsEntry("timestep", SeqOfSet(QubitsOf(nq)), 0, 0, length, step)

\* mutant: `=` for `+=`
AccumulateLast(total, ts) == ts

\* `circuit_duration += timestep_duration`
Accumulate(total, ts) == total + ts

InitTimestep ==
    /\ dag \in Circuits
    /\ qregs = {"q"}
    /\ raised = ""
    /\ policy = "timestep"
    /\ pass = 1
    /\ pc = "start"
    /\ qubit_time_available = <<>>
    /\ new_dag = <<>>
    /\ circuit_duration = None
    /\ first_dag = <<>>
    /\ residual_dag = <<>>
    /\ frontier = {}
    /\ k = 0
    /\ timestep_duration = None
    /\ timelimit = <<>>
    /\ elapsed = 0
    /\ NoTable
    /\ sequenced = NotSequenced
    /\ NoAlignment
    /\ quantized = NotRun

\* the circuit ASAPTimestepSchedule.run is called on: the caller's, or, from
\* ALAPTimestepSchedule.run, `tmp_dag = dag.mirror()`
GrouperInput == IF policy = "alaptimestep" THEN MirrorOps(dag.ops) ELSE dag.ops

\* up to the loop: the physical check (of ALAPTimestepSchedule.run first, when the
\* call comes through it), the residual copy with every duration resolved, its
\* frontier
Prepare ==
    /\ pc = "start"
    /\ policy \in {"timestep", "alaptimestep"}
    /\ IF ~IsPhysical(qregs)
       THEN /\ pc' = "error"
            /\ raised' = NotPhysical
            /\ UNCHANGED <<residual_dag, frontier, k, elapsed>>
       ELSE /\ residual_dag' = [ops |-> ResolveDurations(GrouperInput), removed |-> {}]
            /\ elapsed' = 0
            /\ IF Unresolved(GrouperInput)
               THEN /\ pc' = Outcome(FALSE)
                    /\ raised' = MissingDuration
                    /\ UNCHANGED <<frontier, k>>
               ELSE /\ frontier' = LeadingOpNodes(GrouperInput, {})
                    /\ k' = 1
                    /\ pc' = "loop"
                    /\ raised' = ""
    /\ dag' = IF IsPhysical(qregs) /\ policy = "timestep"
              THEN InputAfter(dag, ResolveDurations(GrouperInput))
              ELSE dag
    /\ UNCHANGED <<table_vars, sequenced, pulse_vars, quantized, new_dag, circuit_duration, asap_vars, timestep_duration, timelimit>>

\* one iteration of `for k in range(1, max_n_iteration + 1)` that does not break
TimestepIteration ==
    /\ pc = "loop"
    /\ k <= MaxNIteration(dag)
    /\ frontier # {}
    /\ LET ops == residual_dag.ops
           ts == DominantDuration(ops, frontier)
           qubits == QubitsOf(dag.num_qubits)
       IN  \E st \in Admit(ops, [removed |-> residual_dag.removed,
                                 timelimit |-> [q \in qubits |-> ts],
                                 dones |-> <<>>,
                                 frontier |-> frontier,
                                 news |-> FirstNews(ops, frontier, ts)]) :
              /\ residual_dag' = [ops |-> SplitDelays(ops, st.frontier, st.timelimit),
                                  removed |-> st.removed]
              /\ dag' = IF policy = "timestep"
                        THEN InputAfter(dag, SplitDelays(ops, st.frontier, st.timelimit))
                        ELSE dag
              /\ frontier' = st.frontier
              /\ new_dag' = new_dag \o ScheduleDones(ops, st.dones, k)
                                    \o IdlePads(st.timelimit, SeqOfSet(qubits), k)
                                    \o <<TimestepMarker(dag.num_qubits, ts, k)>>
              /\ timestep_duration' = ts
              /\ timelimit' = st.timelimit
              /\ elapsed' = Accumulate(elapsed, ts)
    /\ IF k = MaxNIteration(dag)
       THEN pc' = Outcome(FALSE) /\ k' = k /\ raised' = IterationBound
       ELSE pc' = "loop" /\ k' = k + 1 /\ raised' = ""
    /\ UNCHANGED <<table_vars, sequenced, pulse_vars, quantized, circuit_duration, asap_vars>>

\* the loop ends (range exhausted, or `if not frontier: break`): return new_dag
Return ==
    /\ pc = "loop"
    /\ policy = "timestep"
    /\ ~(k <= MaxNIteration(dag) /\ frontier # {})
    /\ circuit_duration' = elapsed
    /\ pc' = "done"
    /\ UNCHANGED <<table_vars, sequenced, pulse_vars, quantized, dag, raised, new_dag, asap_vars, timestep_vars>>

NextTimestep ==
    \/ Prepare
    \/ TimestepIteration
    \/ Return

SpecTimestep == InitTimestep /\ [][NextTimestep]_vars

\* run() is one call: once entered, it goes on until it returns or raises
\* (taken over the circuits of fewer operations)
InitTimestepLive ==
    /\ InitTimestep
    /\ Len(dag.ops) < MaxOps

SpecTimestepLive ==
    InitTimestepLive /\ [][NextTimestep]_vars /\ WF_vars(NextTimestep)

\* ---------------------------------------------------------------- alaptimestep.py
\* a circuit's name, a string, in the integer slot of a duration
Name == -2

\* mutant: the Timesteps stay where the mirror put them
ShiftTimestepsNot(nodes, prev, out) == nodes

\* `shift timesteps`: walking the mirrored schedule, every Timestep is held back
\* until the next one comes, the last one until the end
RECURSIVE ShiftTimesteps(_, _, _)
ShiftTimesteps(nodes, prev, out) ==
    IF nodes = <<>>
    THEN IF prev # <<>> THEN out \o prev ELSE out
    ELSE IF Head(nodes).name = "timestep"
         THEN ShiftTimesteps(Tail(nodes), <<Head(nodes)>>,
                             IF prev # <<>> THEN out \o prev ELSE out)
         ELSE ShiftTimesteps(Tail(nodes), prev, Append(out, Head(nodes)))

\* ALAPTimestepSchedule.run once self.asap.run(tmp_dag) has returned: mirror its
\* schedule, shift the timesteps, `new_dag.duration = tmp_dag.name`
FinishAlapTimestep ==
    /\ pc = "loop"
    /\ policy = "alaptimestep"
    /\ ~(k <= MaxNIteration(dag) /\ frontier # {})
    /\ new_dag' = ShiftTimesteps(Reverse(new_dag), <<>>, <<>>)
    /\ circuit_duration' = Name
    /\ pc' = "done"
    /\ UNCHANGED <<table_vars, sequenced, pulse_vars, quantized, dag, raised, asap_vars, timestep_vars>>

InitAlapTimestep ==
    /\ dag \in Circuits
    /\ qregs = {"q"}
    /\ raised = ""
    /\ policy = "alaptimestep"
    /\ pass = 1
    /\ pc = "start"
    /\ qubit_time_available = <<>>
    /\ new_dag = <<>>
    /\ circuit_duration = None
    /\ first_dag = <<>>
    /\ residual_dag = <<>>
    /\ frontier = {}
    /\ k = 0
    /\ timestep_duration = None
    /\ timelimit = <<>>
    /\ elapsed = 0
    /\ NoTable
    /\ sequenced = NotSequenced
    /\ NoAlignment
    /\ quantized = NotRun

NextAlapTimestep ==
    \/ Prepare
    \/ TimestepIteration
    \/ FinishAlapTimestep

SpecAlapTimestep == InitAlapTimestep /\ [][NextAlapTimestep]_vars

\* ------------------------------------------------- forward scheduler and grouper
\* a physical circuit handed to ASAPSchedule.run or to ASAPTimestepSchedule.run
InitForward ==
    /\ dag \in Circuits
    /\ qregs = {"q"}
    /\ raised = ""
    /\ policy \in {"asap", "timestep"}
    /\ pass = 1
    /\ pc = "start"
    /\ qubit_time_available = <<>>
    /\ new_dag = <<>>
    /\ circuit_duration = None
    /\ first_dag = <<>>
    /\ residual_dag = <<>>
    /\ frontier = {}
    /\ k = 0
    /\ timestep_duration = None
    /\ timelimit = <<>>
    /\ elapsed = 0
    /\ NoTable
    /\ sequenced = NotSequenced
    /\ NoAlignment
    /\ quantized = NotRun

NextForward ==
    \/ Run
    \/ Prepare
    \/ TimestepIteration
    \/ Return

SpecForward == InitForward /\ [][NextForward]_vars

\* ---------------------------------------------------------------- every pass
\* circuits of fewer operations, a gate without a length among them
PassCircuits ==
    UNION {[num_qubits : {nq},
            ops : UNION {[1..n -> OpsOf(nq) \cup UnknownOps(nq)] : n \in 0..(MaxOps - 1)}] :
           nq \in 1..NumQubits}

\* any of them, physical or not, handed to any of the passes
InitPasses ==
    /\ dag \in PassCircuits
    /\ qregs \in QregsOptions
    /\ raised = ""
    /\ policy \in {"asap", "alap", "timestep", "alaptimestep"}
    /\ pass = 1
    /\ pc = "start"
    /\ qubit_time_available = <<>>
    /\ new_dag = <<>>
    /\ circuit_duration = None
    /\ first_dag = <<>>
    /\ residual_dag = <<>>
    /\ frontier = {}
    /\ k = 0
    /\ timestep_duration = None
    /\ timelimit = <<>>
    /\ elapsed = 0
    /\ NoTable
    /\ sequenced = NotSequenced
    /\ NoAlignment
    /\ quantized = NotRun

NextPasses ==
    \/ Run
    \/ RunAlap
    \/ Reschedule
    \/ Prepare
    \/ TimestepIteration
    \/ Return
    \/ FinishAlapTimestep

SpecPasses == InitPasses /\ [][NextPasses]_vars

\* ------------------------------------------------- instruction_durations.py
\* keys in play: cx without qubits (a default), cx on (0, 1), barrier on (0, 1)
TableKeys == {<<"cx", <<>>>>, <<"cx", <<0, 1>>>>, <<"barrier", <<0, 1>>>>}

\* (name, qubits, duration) triples as handed to __init__ and update: the cx
\* default is the long duration, cx on (0, 1) may be shorter
TableEntries ==
    {<<"cx", <<>>, MaxDur>>, <<"barrier", <<0, 1>>, 1>>}
        \cup {<<"cx", <<0, 1>>, d>> : d \in Durations}

MaxEntries == 2     \* a list of instruction_durations holds 0..MaxEntries triples

EntryLists == UNION {[1..n -> TableEntries] : n \in 0..MaxEntries}

\* dt is a positive time quantum when given; two different ones
DtOptions == {None, 1, 2}

LookupNames == {"cx", "barrier", "timestep"}
LookupQubits == {<<>>, <<0>>, <<0, 1>>}

\* `for name, qubits, duration in instruction_durations:
\*      self.duration_dic[(name, tuple(qubits))] = duration`
RECURSIVE StoreAll(_, _)
StoreAll(dic, entries) ==
    IF entries = <<>> THEN dic
    ELSE LET e == Head(entries)
             key == <<e[1], e[2]>>
         IN  StoreAll([x \in (DOMAIN dic) \cup {key} |-> IF x = key THEN e[3] ELSE dic[x]],
                      Tail(entries))

\* mutant: a given dt is taken without a look at the table's
ConflictingDtNever(self_dt, new_dt) == FALSE

\* `if self.dt and dt and self.dt != dt`
ConflictingDt(self_dt, new_dt) == self_dt # None /\ new_dt # None /\ self_dt # new_dt

\* `self.dt = dt or self.dt`
MergedDt(self_dt, new_dt) == IF new_dt # None THEN new_dt ELSE self_dt

\* mutant: only barriers are free
SyncOnlyBarrier == {"barrier"}

\* `if name in {'barrier', 'timestep'}: return 0`
SyncOnly == {"barrier", "timestep"}

Value(v) == [kind |-> "value", value |-> v, key |-> <<>>]
Raised(kind, key) == [kind |-> kind, value |-> None, key |-> key]

\* mutant: a missing key reads as 0
GetOrZero(dic, name, qubits) ==
    IF name \in SyncOnly THEN Value(0)
    ELSE IF <<name, qubits>> \in DOMAIN dic THEN Value(dic[<<name, qubits>>])
    ELSE Value(0)

\* InstructionDurations.get; indexing the dict with a key it does not hold
\* raises KeyError(key)
Get(dic, name, qubits) ==
    IF name \in SyncOnly THEN Value(0)
    ELSE IF <<name, qubits>> \in DOMAIN dic THEN Value(dic[<<name, qubits>>])
    ELSE Raised("KeyError", <<name, qubits>>)

\* InstructionDurations(instruction_durations, dt)
InitDurations ==
    /\ \E entries \in EntryLists, d \in DtOptions :
          /\ duration_dic = StoreAll(<<>>, entries)
          /\ dt = d
          /\ call = [op |-> "init", name |-> "", qubits |-> <<>>, entries |-> entries,
                     dt |-> d]
    /\ result = Value(None)
    /\ sequenced = NotSequenced
    /\ NoAlignment
    /\ quantized = NotRun
    /\ dag = [num_qubits |-> 1, ops |-> <<>>]
    /\ qregs = {"q"}
    /\ raised = ""
    /\ policy = "none"
    /\ pass = 1
    /\ pc = "start"
    /\ qubit_time_available = <<>>
    /\ new_dag = <<>>
    /\ circuit_duration = None
    /\ first_dag = <<>>
    /\ residual_dag = <<>>
    /\ frontier = {}
    /\ k = 0
    /\ timestep_duration = None
    /\ timelimit = <<>>
    /\ elapsed = 0

sched_vars == <<dag, pc, raised, new_dag, circuit_duration, asap_vars, timestep_vars>>

GetDuration ==
    /\ call.op # ""
    /\ \E name \in LookupNames, qubits \in LookupQubits :
          /\ call' = [op |-> "get", name |-> name, qubits |-> qubits, entries |-> <<>>,
                      dt |-> None]
          /\ result' = Get(duration_dic, name, qubits)
    /\ UNCHANGED <<duration_dic, dt, sched_vars, sequenced, pulse_vars, quantized>>

UpdateDurations ==
    /\ call.op # ""
    /\ \E entries \in EntryLists, d \in DtOptions :
          /\ call' = [op |-> "update", name |-> "", qubits |-> <<>>, entries |-> entries,
                      dt |-> d]
          /\ IF ConflictingDt(dt, d)
             THEN /\ result' = Raised("dt must be the same to update", <<>>)
                  /\ UNCHANGED <<duration_dic, dt>>
             ELSE /\ dt' = MergedDt(dt, d)
                  /\ duration_dic' = StoreAll(duration_dic, entries)
                  /\ result' = Value(None)
    /\ UNCHANGED <<sched_vars, sequenced, pulse_vars, quantized>>

NextDurations ==
    \/ GetDuration
    \/ UpdateDurations

SpecDurations == InitDurations /\ [][NextDurations]_vars

\* ------------------------------------------------- lookups on a shared table
\* Scheduling calls that share one InstructionDurations object and look durations
\* up in it; nobody updates it.  Here call and result hold one call and one
\* result per worker; a call's op is where the worker is in get: "" (not
\* called), "get" (entered), "index" (past the test of the name), "returned".
NumWorkers == 2
Workers == 1..NumWorkers

\* mutant: a dict that stores 0 under a key it is asked for and does not hold
TableAfterIndexDefault(dic, key) ==
    [x \in (DOMAIN dic) \cup {key} |-> IF x \in DOMAIN dic THEN dic[x] ELSE 0]

\* `self.duration_dic[(name, tuple(qubits))]`: indexing leaves the dict as it is
TableAfterIndex(dic, key) == dic

InitLookups ==
    /\ \E entries \in EntryLists : duration_dic = StoreAll(<<>>, entries)
    /\ dt \in DtOptions
    /\ call = [w \in Workers |-> NoCall]
    /\ result = [w \in Workers |-> Value(None)]
    /\ sequenced = NotSequenced
    /\ NoAlignment
    /\ quantized = NotRun
    /\ dag = [num_qubits |-> 1, ops |-> <<>>]
    /\ qregs = {"q"}
    /\ raised = ""
    /\ policy = "none"
    /\ pass = 1
    /\ pc = "start"
    /\ qubit_time_available = <<>>
    /\ new_dag = <<>>
    /\ circuit_duration = None
    /\ first_dag = <<>>
    /\ residual_dag = <<>>
    /\ frontier = {}
    /\ k = 0
    /\ timestep_duration = None
    /\ timelimit = <<>>
    /\ elapsed = 0

\* worker w calls get(name, qubits)
EnterGet(w) ==
    /\ call[w].op = ""
    /\ \E name \in LookupNames, qubits \in LookupQubits :
          call' = [call EXCEPT ![w] = [op |-> "get", name |-> name, qubits |-> qubits,
                                       entries |-> <<>>, dt |-> None]]
    /\ UNCHANGED <<duration_dic, dt, result, sched_vars, sequenced, pulse_vars, quantized>>

\* `if name in {'barrier', 'timestep'}: return 0`
TestName(w) ==
    /\ call[w].op = "get"
    /\ IF call[w].name \in SyncOnly
       THEN /\ result' = [result EXCEPT ![w] = Value(0)]
            /\ call' = [call EXCEPT ![w].op = "returned"]
       ELSE /\ call' = [call EXCEPT ![w].op = "index"]
            /\ UNCHANGED result
    /\ UNCHANGED <<duration_dic, dt, sched_vars, sequenced, pulse_vars, quantized>>

\* `return self.duration_dic[(name, tuple(qubits))]`
IndexTable(w) ==
    /\ call[w].op = "index"
    /\ result' = [result EXCEPT ![w] = Get(duration_dic, call[w].name, call[w].qubits)]
    /\ duration_dic' = TableAfterIndex(duration_dic, <<call[w].name, call[w].qubits>>)
    /\ call' = [call EXCEPT ![w].op = "returned"]
    /\ UNCHANGED <<dt, sched_vars, sequenced, pulse_vars, quantized>>

NextLookups ==
    \E w \in Workers :
        \/ EnterGet(w)
        \/ TestName(w)
        \/ IndexTable(w)

SpecLookups == InitLookups /\ [][NextLookups]_vars

\* ------------------------------ compiler/sequence.py, scheduler/methods/sequence.py
\* lowering (translate_gates_to_pulse_defs, lower_gates) after spec 4.6: a marker
\* stays the marker it is, every other operation gets its implementation from
\* the map, here one of the operation's own duration; index is the position of
\* the operation in the circuit
IsMarker(e) == e.name \in {"barrier", "timestep"}
Lower(e, x) ==
    IF IsMarker(e)
    THEN [kind |-> "Barrier", name |-> e.name, qargs |-> e.qargs, duration |-> 0,
          index |-> x]
    ELSE [kind |-> "Schedule", name |-> e.name, qargs |-> e.qargs,
          duration |-> e.duration, index |-> x]

\* `for q in qubits: if qubit_time_available[q] != start_time: raise`
AllAt(qta, qubits, start_time) ==
    \A q \in Range(qubits) : TimeAvailable(qta, q) = start_time

\* mutant: the clock of a qubit is set to, not advanced by, the duration
AdvanceTo(qta, qubits, duration) ==
    [q \in (DOMAIN qta) \cup Range(qubits) |->
        IF q \in Range(qubits) THEN duration ELSE qta[q]]

\* `for q in qubits: qubit_time_available[q] += inst.duration`
Advance(qta, qubits, duration) ==
    [q \in (DOMAIN qta) \cup Range(qubits) |->
        IF q \in Range(qubits) THEN TimeAvailable(qta, q) + duration ELSE qta[q]]

\* trace start times: the walk over scheduled_circuit.data from entry i on;
\* checked says whether the walk compares the clocks (compiler/sequence.py) or
\* has the comparison commented out (scheduler/methods/sequence.py)
RECURSIVE TraceStartTimes(_, _, _, _)
TraceStartTimes(data, i, st, checked) ==
    IF i > Len(data) THEN st
    ELSE LET qubits == data[i].qargs
             start_time == TimeAvailable(st.qta, qubits[1])
         IN  IF checked /\ ~AllAt(st.qta, qubits, start_time)
             THEN [st EXCEPT !.ok = FALSE]
             ELSE TraceStartTimes(data, i + 1,
                                  [qta |-> Advance(st.qta, qubits, data[i].duration),
                                   start_times |-> Append(st.start_times, start_time),
                                   ok |-> TRUE],
                                  checked)

\* mutant: markers are lowered like everything else
KeepsAll(cpd) == TRUE

\* `if not isinstance(cpd.schedule, Barrier)`
Keeps(cpd) == cpd.kind # "Barrier"

\* `[(time, cpd.schedule) for time, cpd in zip(start_times, circ_pulse_defs) if ...]`
RECURSIVE TimedSchedules(_, _, _)
TimedSchedules(start_times, data, i) ==
    IF i > Len(data) THEN <<>>
    ELSE LET cpd == Lower(data[i], i)
             rest == TimedSchedules(start_times, data, i + 1)
         IN  IF Keeps(cpd) THEN <<[time |-> start_times[i], schedule |-> cpd]>> \o rest
             ELSE rest

\* Schedule(*timed_schedules).duration: the latest stop
ScheduleDuration(timed) ==
    IF timed = <<>> THEN 0
    ELSE Max({timed[i].time + timed[i].schedule.duration : i \in 1..Len(timed)})

BugInScheduler == "Bug in scheduling pass."
AssertionError == "assert sched.duration == scheduled_circuit.duration"

\* either sequencer on a scheduled circuit
SequenceRun(by, data, duration, checked) ==
    LET st == TraceStartTimes(data, 1, [qta |-> <<>>, start_times |-> <<>>, ok |-> TRUE],
                              checked)
    IN  IF ~st.ok
        THEN [NotSequenced EXCEPT !.by = by, !.status = BugInScheduler]
        ELSE LET timed == TimedSchedules(st.start_times, data, 1)
             IN  [by |-> by,
                  status |-> IF ScheduleDuration(timed) = duration THEN "returned"
                             ELSE AssertionError,
                  start_times |-> st.start_times,
                  timed_schedules |-> timed,
                  duration |-> ScheduleDuration(timed)]

\* qiskit.compiler.sequence._sequence
Sequence ==
    /\ pc = "done"
    /\ sequenced.by = ""
    /\ sequenced' = SequenceRun("compiler", new_dag, circuit_duration, TRUE)
    /\ UNCHANGED <<sched_vars, table_vars, pulse_vars, quantized>>

\* qiskit.scheduler.methods.sequence.sequence
SequenceMethods ==
    /\ pc = "done"
    /\ sequenced.by = ""
    /\ sequenced' = SequenceRun("methods", new_dag, circuit_duration, FALSE)
    /\ UNCHANGED <<sched_vars, table_vars, pulse_vars, quantized>>

\* scheduled circuits built by hand: gates and delays with durations, barriers and
\* timesteps over all qubits, in any order
GivenEntries(nq) ==
    {Entry(op.name, op.qargs, op.len, None, 0) : op \in OpsOf(nq)}
        \cup {Entry(name, SeqOfSet(QubitsOf(nq)), 0, None, 0) : name \in {"barrier", "timestep"}}

GivenSchedules(nq) == UNION {[1..n -> GivenEntries(nq)] : n \in 0..(MaxOps - 1)}

\* the duration a hand-built circuit records: the longest qubit, or none
Packed(data, nq) ==
    Max({SumSeq([x \in 1..Len(data) |-> IF On(data[x], q) THEN data[x].duration ELSE 0]) :
            q \in QubitsOf(nq)})

\* a circuit for the forward scheduler and then the sequencer, or a scheduled
\* circuit for the sequencer
InitSequence ==
    /\ \/ /\ policy = "asap"
          /\ pc = "start"
          /\ dag \in Circuits
          /\ new_dag = <<>>
          /\ circuit_duration = None
       \/ /\ policy = "given"
          /\ pc = "done"
          /\ \E nq \in 1..NumQubits :
                /\ dag = [num_qubits |-> nq, ops |-> <<>>]
                /\ new_dag \in GivenSchedules(nq)
                /\ circuit_duration \in {None, Packed(new_dag, nq)}
    /\ qregs = {"q"}
    /\ raised = ""
    /\ pass = 1
    /\ qubit_time_available = <<>>
    /\ first_dag = <<>>
    /\ residual_dag = <<>>
    /\ frontier = {}
    /\ k = 0
    /\ timestep_duration = None
    /\ timelimit = <<>>
    /\ elapsed = 0
    /\ NoTable
    /\ sequenced = NotSequenced
    /\ NoAlignment
    /\ quantized = NotRun

NextSequence ==
    \/ Run
    \/ Sequence
    \/ SequenceMethods

SpecSequence == InitSequence /\ [][NextSequence]_vars

\* ---------------------------------------------------------------- timestepsasap.py
\* `max_n_iteration = dag.size()`
TimestepsMaxNIteration(d) == Len(d.ops)

\* `frontier = sorted(frontier, key=lambda x: x.op.duration, reverse=True)`,
\* `dominant = frontier[0]`
SortedDominant(ops, front) == Max({ops[n].duration : n \in front})

\* the nodes the sorted frontier can end with: the sort is stable, so one of the
\* shortest, whichever the frontier enumerated last
SortedLast(ops, front) ==
    {n \in front : ops[n].duration = Min({ops[m].duration : m \in front})}

\* `news = frontier` and the `while news:` loop after it
TimestepsAdmit(ops, removed, front, ts, qubits) ==
    LET st == [removed |-> removed,
               timelimit |-> [q \in qubits |-> ts],
               dones |-> <<>>,
               frontier |-> front,
               news |-> front]
    IN  UNION {Admit(ops, AdmitNews(ops, st, last)) : last \in SortedLast(ops, front)}

\* `for k in range(1, max_n_iteration + 1)` from iteration lp.k on: the results
\* the call can end with, over the orders the frontier may come in
RECURSIVE TimestepsLoop(_, _, _)
TimestepsLoop(ops, d, lp) ==
    IF lp.k > TimestepsMaxNIteration(d) \/ lp.frontier = {}
    THEN {[status |-> "done", raised |-> "", new_dag |-> lp.new_dag, duration |-> lp.elapsed]}
    ELSE LET ts == SortedDominant(ops, lp.frontier)
             qubits == QubitsOf(d.num_qubits)
         IN  UNION {
               IF lp.k = TimestepsMaxNIteration(d)
               THEN {[status |-> "error", raised |-> IterationBound,
                      new_dag |-> <<>>, duration |-> None]}
               ELSE TimestepsLoop(ops, d,
                      [k |-> lp.k + 1,
                       removed |-> st.removed,
                       frontier |-> st.frontier,
                       new_dag |-> lp.new_dag \o ScheduleDones(ops, st.dones, lp.k)
                                     \o IdlePads(st.timelimit, SeqOfSet(qubits), lp.k)
                                     \o <<TimestepMarker(d.num_qubits, ts, lp.k)>>,
                       elapsed |-> lp.elapsed + ts]) :
               st \in TimestepsAdmit(ops, lp.removed, lp.frontier, ts, qubits)}

\* TimestepsASAPSchedule.run
TimestepsAsapRun(d, regs) ==
    IF ~IsPhysical(regs)
    THEN {[status |-> "error", raised |-> NotPhysical, new_dag |-> <<>>, duration |-> None]}
    ELSE IF Unresolved(d.ops)
    THEN {[status |-> "error", raised |-> MissingDuration, new_dag |-> <<>>, duration |-> None]}
    ELSE TimestepsLoop(ResolveDurations(d.ops), d,
                       [k |-> 1, removed |-> {}, frontier |-> LeadingOpNodes(d.ops, {}),
                        new_dag |-> <<>>, elapsed |-> 0])

\* the caller runs TimestepsASAPSchedule on the circuit it gave ASAPTimestepSchedule
RunTimestepsAsap ==
    /\ policy = "timestep"
    /\ pc \in {"done", "error"}
    /\ quantized.status = ""
    /\ \E r \in TimestepsAsapRun(dag, qregs) : quantized' = r
    /\ UNCHANGED <<sched_vars, table_vars, sequenced, pulse_vars>>

\* circuits that contain no Delay
InitQuantized ==
    /\ InitTimestep
    /\ \A i \in 1..Len(dag.ops) : ~IsDelay(dag.ops[i])

NextQuantized ==
    \/ Prepare
    \/ TimestepIteration
    \/ Return
    \/ RunTimestepsAsap

SpecQuantized == InitQuantized /\ [][NextQuantized]_vars

\* ================================================================ qiskit.pulse.alignment
NumChannels == 2        \* channels a component can play on
MaxInstructions == 3    \* components handed to one alignment call
MaxOffset == 1          \* latest start of the instruction inside a component

PulseChannels == 1..NumChannels

\* the components an alignment function is called with: one pulse instruction of
\* some duration on some channels, starting at the component's own time 0 (a
\* bare Instruction) or later (a Schedule holding it at an offset)
Components(offsets) ==
    [channels : (SUBSET PulseChannels) \ {{}}, duration : {1, MaxDur}, offset : offsets]

\* pulse.Schedule as alignment.py uses it: a set of timed instructions
AsSchedule(c, i) ==
    {[index |-> i, channels |-> c.channels, duration |-> c.duration, start |-> c.offset]}

StopOf(e) == e.start + e.duration

\* Schedule.filter(channels=[channel])
filter(sched, channel) == {e \in sched : channel \in e.channels}

\* Schedule.channels
channels(sched) == UNION {e.channels : e \in sched}

\* Schedule.ch_stop_time(channel): 0 on a channel the schedule does not use
ch_stop_time(sched, channel) == Max({0} \cup {StopOf(e) : e \in filter(sched, channel)})

\* Schedule.ch_start_time(channel): 0 on a channel the schedule does not use
ch_start_time(sched, channel) ==
    IF filter(sched, channel) = {} THEN 0
    ELSE Min({e.start : e \in filter(sched, channel)})

\* Schedule.start_time: 0 for the empty schedule
start_time(sched) == IF sched = {} THEN 0 ELSE Min({e.start : e \in sched})

\* Schedule.duration: the latest stop time
duration(sched) == Max({0} \cup {StopOf(e) : e \in sched})

\* Schedule.insert(start_time, schedule)
insert(sched, t, other) == sched \cup {[e EXCEPT !.start = e.start + t] : e \in other}

\* alignment.push_append
push_append(this, other) ==
    LET other_channels == channels(other)
        ch_slacks == {ch_stop_time(this, channel) + ch_start_time(other, channel) :
                        channel \in other_channels}
        insert_time == start_time(this) + Max({0} \cup ch_slacks)
    IN  insert(this, insert_time, other)

RECURSIVE AlignFrom(_, _, _)
AlignFrom(sched, instrs, i) ==
    IF i > Len(instrs) THEN sched
    ELSE AlignFrom(push_append(sched, AsSchedule(instrs[i], i)), instrs, i + 1)

\* alignment.align_left
align_left(instrs) == AlignFrom({}, instrs, 1)

\* alignment.align_right
align_right(instrs) ==
    LET left_aligned == align_left(instrs)
        channel_durations == [channel \in channels(left_aligned) |->
                                duration(filter(left_aligned, channel))]
        max_duration == Max({0} \cup {duration(filter(left_aligned, channel))
                                        - start_time(filter(left_aligned, channel)) :
                                      channel \in channels(left_aligned)})
        instr_max_dur(e) == Max({channel_durations[channel] : channel \in e.channels})
    IN  {[e EXCEPT !.start = max_duration - instr_max_dur(e) + e.start] : e \in left_aligned}

\* a call of align_left
AlignLeft ==
    /\ pc = "start"
    /\ policy = "align_left"
    /\ aligned' = align_left(instructions)
    /\ pc' = "done"
    /\ UNCHANGED <<dag, raised, new_dag, circuit_duration, asap_vars, timestep_vars,
                   table_vars, sequenced, instructions, quantized>>

\* a call of align_right
AlignRight ==
    /\ pc = "start"
    /\ policy = "align_right"
    /\ aligned' = align_right(instructions)
    /\ pc' = "done"
    /\ UNCHANGED <<dag, raised, new_dag, circuit_duration, asap_vars, timestep_vars,
                   table_vars, sequenced, instructions, quantized>>

\* no circuit is being scheduled
NoCircuit ==
    /\ dag = [num_qubits |-> 1, ops |-> <<>>]
    /\ qregs = {"q"}
    /\ raised = ""
    /\ pass = 1
    /\ qubit_time_available = <<>>
    /\ new_dag = <<>>
    /\ circuit_duration = None
    /\ first_dag = <<>>
    /\ residual_dag = <<>>
    /\ frontier = {}
    /\ k = 0
    /\ timestep_duration = None
    /\ timelimit = <<>>
    /\ elapsed = 0
    /\ NoTable
    /\ sequenced = NotSequenced
    /\ quantized = NotRun

\* align_left on instructions and on schedules whose instruction starts late
InitAlignLeft ==
    /\ NoCircuit
    /\ policy = "align_left"
    /\ pc = "start"
    /\ instructions \in UNION {[1..n -> Components(0..MaxOffset)] : n \in 0..MaxInstructions}
    /\ aligned = {}

NextAlignLeft == AlignLeft

SpecAlignLeft == InitAlignLeft /\ [][NextAlignLeft]_vars

\* align_right on bare instructions
InitAlignRight ==
    /\ NoCircuit
    /\ policy = "align_right"
    /\ pc = "start"
    /\ instructions \in UNION {[1..n -> Components({0})] : n \in 0..MaxInstructions}
    /\ aligned = {}

NextAlignRight == AlignRight

SpecAlignRight == InitAlignRight /\ [][NextAlignRight]_vars

\* ================================================================ properties
Entries == 1..Len(new_dag)
End(e) == e.start + e.duration
DeclaredQubits == QubitsOf(dag.num_qubits)
\* the forward scheduler has returned its schedule
AsapReturned == pc = "done" /\ policy = "asap"

\* C1: on every qubit the intervals [start, start+duration) of the placed
\* operations and padding Delays are pairwise non-overlapping.
C1_MutualExclusion ==
    \A x, l \in Entries :
        (x < l /\ Shares(new_dag[x], new_dag[l]))
            => (End(new_dag[x]) <= new_dag[l].start \/ End(new_dag[l]) <= new_dag[x].start)

\* a returned schedule in which a padding Delay and a two-qubit gate meet on a qubit
C1_Witness ==
    /\ AsapReturned
    /\ \E x, l \in Entries :
          /\ x < l
          /\ new_dag[x].node = 0
          /\ Len(new_dag[l].qargs) = 2
          /\ Shares(new_dag[x], new_dag[l])

Covered(q, t) == \E x \in Entries : On(new_dag[x], q) /\ new_dag[x].start <= t /\ t < End(new_dag[x])

\* C2: every declared qubit, touched or not, is covered from tick 0 to
\* Schedule.duration without a gap.

C2_Coverage ==
    AsapReturned => \A q \in DeclaredQubits : \A t \in 0..(circuit_duration - 1) : Covered(q, t)

\* Reference earliest starts, from the input alone: RefStarts(ops, n)[i] is the
\* latest finish of the operations before ops[i] on its qubits (0 without one).
PrevOn(ops, i, q) == {j \in 1..(i - 1) : On(ops[j], q)}
RECURSIVE RefStarts(_, _)
RefStarts(ops, n) ==
    IF n = 0 THEN <<>>
    ELSE LET prev == RefStarts(ops, n - 1)
         IN  Append(prev,
                Max({IF PrevOn(ops, n, q) = {} THEN 0
                     ELSE LET j == Max(PrevOn(ops, n, q))
                          IN  prev[j] + DurationMapperGet(ops[j]) : q \in Range(ops[n].qargs)}))
RefStart(ops, i) == RefStarts(ops, i)[i]

\* C3: every operation starts at the latest finish tick of its predecessors on
\* the qubits it touches (0 without a predecessor).
C3_AsapOptimal ==
    AsapReturned =>
        LET ref == RefStarts(dag.ops, Len(dag.ops))
        IN  \A x \in Entries :
                new_dag[x].node # 0 => new_dag[x].start = ref[new_dag[x].node]

\* an operation on two qubits whose predecessors finish at different ticks
C3_Witness ==
    /\ AsapReturned
    /\ \E x \in Entries :
          /\ new_dag[x].node # 0
          /\ Len(new_dag[x].qargs) = 2
          /\ new_dag[x].start > 0
          /\ \E l \in Entries : new_dag[l].node = 0 /\ End(new_dag[l]) = new_dag[x].start

\* Chains(ops, n)[i]: the longest sum of durations along a chain of operations,
\* each sharing a qubit with the next, that ends in ops[i]
RECURSIVE Chains(_, _)
Chains(ops, n) ==
    IF n = 0 THEN <<>>
    ELSE LET prev == Chains(ops, n - 1)
         IN  Append(prev,
                DurationMapperGet(ops[n])
                    + Max({0} \cup {prev[j] : j \in {j \in 1..(n - 1) : Shares(ops[j], ops[n])}}))
CriticalPath(ops) == Max({0} \cup Range(Chains(ops, Len(ops))))

UsedQubits == {q \in DeclaredQubits : \E x \in Entries : On(new_dag[x], q)}
LastOn(q) == new_dag[Max({x \in Entries : On(new_dag[x], q)})]

\* C4: Schedule.duration is the latest finish over the qubits' last operations
\* and the longest chain of the input, for ASAP and mirror-derived ALAP.
C4_Duration ==
    pc = "done" =>
        /\ circuit_duration = Max({End(LastOn(q)) : q \in UsedQubits})
        /\ circuit_duration = CriticalPath(dag.ops)

\* an ALAP schedule of three operations whose longest chain is not the sum of all
C4_Witness ==
    /\ pc = "done"
    /\ policy = "alap"
    /\ Len(dag.ops) = 3
    /\ circuit_duration < SumSeq([i \in 1..3 |-> dag.ops[i].len])
    /\ circuit_duration > Max({dag.ops[i].len : i \in 1..3})

\* what the timeline of qubit r read when entry x was placed: the finish of the
\* last operation before it on r
OpsBefore(x, r) == {l \in 1..(x - 1) : On(new_dag[l], r) /\ new_dag[l].node # 0}
TimelineAt(x, r) == IF OpsBefore(x, r) = {} THEN 0 ELSE End(new_dag[Max(OpsBefore(x, r))])
PadsFor(x, r) ==
    {l \in 1..(x - 1) :
        /\ new_dag[l].node = 0
        /\ new_dag[l].qargs = <<r>>
        /\ \A m \in l..(x - 1) : new_dag[m].node = 0}

\* the per-operation half of the padding rule
PadBeforeOperation ==
    \A x \in Entries :
        new_dag[x].node # 0 =>
            \A r \in Range(new_dag[x].qargs) :
                LET tl == TimelineAt(x, r)
                    start == new_dag[x].start
                IN  /\ tl = start => PadsFor(x, r) = {}
                    /\ tl < start =>
                          /\ Cardinality(PadsFor(x, r)) = 1
                          /\ \A l \in PadsFor(x, r) :
                                new_dag[l].start = tl /\ new_dag[l].duration = start - tl

TrailingPads(q) ==
    {l \in Entries :
        /\ new_dag[l].node = 0
        /\ new_dag[l].qargs = <<q>>
        /\ \A m \in l..Len(new_dag) : new_dag[m].node = 0}

\* the trailing half, for the qubits of Q
PadAfterLast(Q) ==
    \A q \in Q :
        LET finish == TimeAvailable(qubit_time_available, q)
        IN  /\ finish = circuit_duration => TrailingPads(q) = {}
            /\ finish < circuit_duration =>
                  /\ Cardinality(TrailingPads(q)) = 1
                  /\ \A l \in TrailingPads(q) :
                        new_dag[l].start = finish
                        /\ new_dag[l].duration = circuit_duration - finish

\* C5: a qubit behind an operation's start gets exactly one Delay of the gap
\* right before the operation, a qubit at the start gets none; after the last
\* operation every qubit behind the latest finish gets exactly one trailing
\* Delay of the difference.
C5_PaddingRule ==
    /\ policy = "asap" => PadBeforeOperation
    /\ AsapReturned => PadAfterLast(DeclaredQubits)

\* the same rule with the trailing half read over the working qubits only
PaddingRuleOnWorkingQubits ==
    /\ policy = "asap" => PadBeforeOperation
    /\ AsapReturned => PadAfterLast(WorkingQubits(qubit_time_available))

\* Reference latest starts under deadline T, from the input alone:
\* LatestStarts(ops, i, T)[x] is the latest start of ops[i + x - 1], which must
\* finish by T and before every later operation on one of its qubits starts.
RECURSIVE LatestStarts(_, _, _)
LatestStarts(ops, i, T) ==
    IF i > Len(ops) THEN <<>>
    ELSE LET later == LatestStarts(ops, i + 1, T)
         IN  <<Min({T} \cup {later[j - i] : j \in {j \in (i + 1)..Len(ops) :
                                                    Shares(ops[i], ops[j])}})
                 - DurationMapperGet(ops[i])>> \o later

AlapReturned == pc = "done" /\ policy = "alap"

\* C6: mirror, schedule forward, mirror back: every operation starts at the
\* latest tick precedence, mutual exclusion and the deadline allow.
C6_AlapIsLatest ==
    AlapReturned =>
        LET latest == LatestStarts(dag.ops, 1, circuit_duration)
        IN  \A x \in Entries :
                new_dag[x].node # 0 => new_dag[x].start = latest[new_dag[x].node]

\* an ALAP schedule in which some operation starts later than ASAP would start it
C6_Witness ==
    /\ AlapReturned
    /\ \E x \in Entries :
          /\ new_dag[x].node # 0
          /\ new_dag[x].start > RefStart(dag.ops, new_dag[x].node)

\* C7: scheduling the scheduler's own output adds no Delay and keeps every start
\* tick and the duration.
C7_Idempotent ==
    (pc = "done" /\ pass = 2) =>
        /\ Len(new_dag) = Len(first_dag.ops)
        /\ circuit_duration = first_dag.duration
        /\ \A x \in Entries :
              /\ new_dag[x].node # 0
              /\ new_dag[x].start = first_dag.ops[new_dag[x].node].start
              /\ new_dag[x].duration = first_dag.ops[new_dag[x].node].duration

\* the rescheduled circuit held padding, both leading and trailing
C7_Witness ==
    /\ pc = "done"
    /\ pass = 2
    /\ \E x, l \in 1..Len(first_dag.ops) :
          /\ x < l
          /\ first_dag.ops[x].node = 0
          /\ first_dag.ops[l].node # 0
          /\ first_dag.ops[Len(first_dag.ops)].node = 0

\* ---------------------------------------------------------------- timestep grouper
Markers == {x \in Entries : new_dag[x].name = "timestep"}
\* outer iterations that ran to their end
Completed == IF pc = "start" THEN 0 ELSE IF pc = "error" THEN k ELSE k - 1
RECURSIVE SumLengths(_)
SumLengths(S) ==
    IF S = {} THEN 0
    ELSE LET x == Min(S) IN new_dag[x].length + SumLengths(S \ {x})
RECURSIVE SumEntryDurations(_)
SumEntryDurations(S) ==
    IF S = {} THEN 0
    ELSE LET x == Min(S) IN new_dag[x].duration + SumEntryDurations(S \ {x})

\* C8: the Timestep markers' lengths sum to Schedule.duration; every outer
\* iteration appends exactly one marker, on all qubits, after the iteration's
\* operations and padding.
C8_MarkersSumToDuration ==
    /\ elapsed = SumLengths(Markers)
    /\ pc = "done" => circuit_duration = SumLengths(Markers)
    /\ \A step \in 1..Completed :
          /\ Cardinality({x \in Markers : new_dag[x].step = step}) = 1
          /\ \A x \in Markers :
                new_dag[x].step = step =>
                    /\ Range(new_dag[x].qargs) = DeclaredQubits
                    /\ \A y \in Entries :
                          /\ new_dag[y].step = step => y <= x
                          /\ new_dag[y].step > step => y > x
    /\ Cardinality(Markers) = Completed

\* a returned schedule of two Timesteps, the first one holding an idle Delay
C8_Witness ==
    /\ pc = "done"
    /\ Cardinality(Markers) = 2
    /\ \E x \in Entries :
          new_dag[x].step = 1 /\ new_dag[x].name = "delay" /\ new_dag[x].node = 0

\* C9: inside every Timestep, on every qubit, the admitted operations' durations
\* and the idle padding sum to the Timestep's length; the per-qubit budget never
\* drops below 0.
C9_TimestepConservation ==
    /\ \A q \in DOMAIN timelimit : timelimit[q] >= 0
    /\ \A x \in Markers :
          \A q \in DeclaredQubits :
              SumEntryDurations({y \in Entries \ Markers :
                                    new_dag[y].step = new_dag[x].step /\ On(new_dag[y], q)})
                  = new_dag[x].length

\* C10: a circuit with at least one operation is scheduled without the
\* iteration-bound failure.
C10_NoIterationBoundFailure == pc # "error"

\* the Timestep the latest iteration appended
LastEntry(sched) == sched[Len(sched)]
\* durations found in a frontier, by kind of operation
FrontierDurations(ops, front, delay) ==
    {ops[n].duration : n \in {m \in front : (ops[m].name = "delay") = delay}}
\* two operations on disjoint qubits, the longer one not a Delay
TwoDisjoint ==
    /\ Len(dag.ops) = 2
    /\ ~Shares(dag.ops[1], dag.ops[2])
    /\ dag.ops[1].len # dag.ops[2].len
    /\ \A i \in 1..2 : dag.ops[i].len = MaxDur => dag.ops[i].name # "delay"
\* ... come out as one Timestep of the longer duration, the shorter one's qubits
\* padded by the difference
OneTimestepForTwo ==
    (pc = "done" /\ TwoDisjoint) =>
        LET long == Max({dag.ops[i].len : i \in 1..2})
            short == Min({dag.ops[i].len : i \in 1..2})
            i == CHOOSE i \in 1..2 : dag.ops[i].len = short
        IN  /\ Cardinality(Markers) = 1
            /\ \A x \in Markers : new_dag[x].length = long
            /\ \A j \in 1..2 : \E x \in Entries : new_dag[x].node = j /\ new_dag[x].step = 1
            /\ \A q \in Range(dag.ops[i].qargs) :
                  /\ Cardinality({x \in Entries : new_dag[x].node = 0
                                     /\ new_dag[x].qargs = <<q>>}) = 1
                  /\ \E x \in Entries :
                        /\ new_dag[x].node = 0
                        /\ new_dag[x].qargs = <<q>>
                        /\ new_dag[x].duration = long - short

\* C11: every outer iteration appends a Timestep whose length is the largest
\* duration among the non-Delay operations of the frontier it started with, or,
\* for a frontier of Delays only, the smallest Delay duration; two operations of
\* different durations on disjoint qubits make one Timestep of the longer
\* duration that holds both, the shorter one's qubit padded by the difference.
C11_DominantDuration ==
    [][/\ (pc = "loop" /\ Len(new_dag') > Len(new_dag)) =>
            LET gates == FrontierDurations(residual_dag.ops, frontier, FALSE)
                delays == FrontierDurations(residual_dag.ops, frontier, TRUE)
                length == LastEntry(new_dag').length
            IN  /\ LastEntry(new_dag').name = "timestep"
                /\ timestep_duration' = length
                /\ gates # {} => (length \in gates /\ \A d \in gates : d <= length)
                /\ gates = {} => (length \in delays /\ \A d \in delays : length <= d)
       /\ OneTimestepForTwo']_vars

\* the two disjoint operations were returned in one Timestep, with its idle Delay
C11_Witness ==
    /\ pc = "done"
    /\ TwoDisjoint
    /\ Cardinality(Markers) = 1
    /\ \E x \in Entries : new_dag[x].node = 0 /\ new_dag[x].name = "delay"

\* the idle Delays that are pieces of input Delay n: those on its qubit in the
\* Timesteps that closed with n in the frontier (everything before n on the qubit
\* admitted, n itself not)
StepOf(i) ==
    IF \E x \in Entries : new_dag[x].node = i
    THEN new_dag[CHOOSE x \in Entries : new_dag[x].node = i].step
    ELSE MaxOps * NumQubits + 2
PiecesOf(n) ==
    LET q == dag.ops[n].qargs[1]
    IN  {x \in Entries :
            /\ new_dag[x].name = "delay"
            /\ new_dag[x].node = 0
            /\ new_dag[x].qargs = <<q>>
            /\ new_dag[x].step < StepOf(n)
            /\ \A j \in 1..(n - 1) : On(dag.ops[j], q) => StepOf(j) <= new_dag[x].step}
\* what is left of input Delay n: as admitted, else as it waits in the residual DAG
ResidualOf(n) ==
    IF \E x \in Entries : new_dag[x].node = n
    THEN new_dag[CHOOSE x \in Entries : new_dag[x].node = n].duration
    ELSE residual_dag.ops[n].duration
InputDelays == {n \in 1..Len(dag.ops) : dag.ops[n].name = "delay"}
DelayTimeConserved ==
    pc # "start" =>
        \A n \in InputDelays :
            dag.ops[n].duration = SumEntryDurations(PiecesOf(n)) + ResidualOf(n)

\* C12: a split emits an idle Delay of exactly the budget left on the Delay's
\* qubit and shrinks the residual Delay by as much; a residual Delay never grows;
\* the pieces emitted for an input Delay and its residual always sum to the
\* Delay's original duration.
C12_DelaySplitConserves ==
    [][/\ DelayTimeConserved'
       /\ pc = "loop" =>
            \A n \in InputDelays :
                LET before == residual_dag.ops[n].duration
                    after == residual_dag'.ops[n].duration
                    q == dag.ops[n].qargs[1]
                IN  /\ after <= before
                    /\ after < before =>
                          /\ before - after = timelimit'[q]
                          /\ \E x \in 1..Len(new_dag') :
                                /\ new_dag'[x].name = "delay"
                                /\ new_dag'[x].node = 0
                                /\ new_dag'[x].qargs = <<q>>
                                /\ new_dag'[x].step = k
                                /\ new_dag'[x].duration = before - after]_vars

\* a returned schedule in which an input Delay was admitted shorter than it came
C12_Witness ==
    /\ pc = "done"
    /\ \E n \in InputDelays :
          /\ PiecesOf(n) # {}
          /\ \E x \in Entries : new_dag[x].node = n /\ new_dag[x].duration < dag.ops[n].duration

\* the input as it was handed over: no gate carries a resolved duration
InputUntouched == \A i \in 1..Len(dag.ops) : dag.ops[i].name = "gate" => dag.ops[i].duration = None
NothingEmitted ==
    /\ new_dag = <<>>
    /\ circuit_duration = None
    /\ qubit_time_available = <<>>
    /\ residual_dag = <<>>

\* C13: on a circuit that is not over the single register 'q', every pass raises
\* its physical-circuits error as its first step: no duration has been resolved,
\* no operation changed, nothing of a schedule built.
C13_NotPhysicalFirst ==
    [][qregs # {"q"} =>
          /\ pc = "start"
          /\ pc' = "error"
          /\ raised' = NotPhysical
          /\ InputUntouched'
          /\ NothingEmitted'
          /\ dag' = dag]_vars

\* the mirrored quantized pass rejected a circuit with operations that has a
\* second register next to 'q'
C13_Witness ==
    /\ pc = "error"
    /\ raised = NotPhysical
    /\ policy = "alaptimestep"
    /\ qregs = {"q", "anc"}
    /\ Len(dag.ops) > 0

\* ---------------------------------------------------------------- duration table
Registered(name, qubits) == <<name, qubits>> \in DOMAIN duration_dic
Looked == call.op = "get" /\ call.name \notin {"barrier", "timestep"}

\* C14: a lookup returns the duration registered for exactly (name, qubits) when
\* there is one, and otherwise the default registered for the name without
\* qubits; the exact entry goes before the default.
C14_LookupWithDefault ==
    Looked =>
        /\ Registered(call.name, call.qubits) =>
              result = Value(duration_dic[<<call.name, call.qubits>>])
        /\ (~Registered(call.name, call.qubits) /\ Registered(call.name, <<>>)) =>
              result = Value(duration_dic[<<call.name, <<>>>>])

\* the half of it that holds: an exact entry is what a lookup returns
LookupExact ==
    (Looked /\ Registered(call.name, call.qubits)) =>
        result = Value(duration_dic[<<call.name, call.qubits>>])

\* C15: a lookup with neither an exact entry nor a default fails, its error
\* carries the name and the qubits asked for, and the table's entries and dt are
\* as before.
C15_MissingDuration ==
    [][call'.op = "get" =>
          /\ duration_dic' = duration_dic
          /\ dt' = dt
          /\ (/\ call'.name \notin {"barrier", "timestep"}
              /\ ~Registered(call'.name, call'.qubits)
              /\ ~Registered(call'.name, <<>>)) =>
                  /\ result'.kind = "KeyError"
                  /\ result'.key = <<call'.name, call'.qubits>>]_vars

\* a failed lookup of cx on one qubit in a table that holds another cx entry
C15_Witness ==
    /\ call.op = "get"
    /\ call.name = "cx"
    /\ call.qubits = <<0>>
    /\ result.kind = "KeyError"
    /\ Registered("cx", <<0, 1>>)
    /\ ~Registered("cx", <<>>)

\* C16: barrier and timestep resolve to 0 for any qubits, registered or not,
\* whatever value is registered.
C16_SyncOnlyIsZero ==
    (call.op = "get" /\ call.name \in {"barrier", "timestep"}) => result = Value(0)

\* barrier looked up on the qubits it is registered for with a duration of 1
C16_Witness ==
    /\ call.op = "get"
    /\ call.name = "barrier"
    /\ call.qubits = <<0, 1>>
    /\ Registered("barrier", <<0, 1>>)
    /\ duration_dic[<<"barrier", <<0, 1>>>>] = 1
    /\ result = Value(0)

\* the key-by-key result of merging a list into a table: the latest triple of the
\* list for a key, else what the table held
LatestFor(entries, key) ==
    LET hits == {i \in 1..Len(entries) : <<entries[i][1], entries[i][2]>> = key}
    IN  IF hits = {} THEN None ELSE entries[Max(hits)][3]
MergesInto(old, entries, new) ==
    /\ DOMAIN new = (DOMAIN old) \cup {<<entries[i][1], entries[i][2]>> : i \in 1..Len(entries)}
    /\ \A key \in DOMAIN new :
          new[key] = IF LatestFor(entries, key) # None THEN LatestFor(entries, key)
                     ELSE old[key]

\* C17: update fails exactly when the table and the update both carry a dt and the
\* two differ, and then changes nothing; otherwise it merges the entries, a new
\* one replacing the old one of its key, and dt becomes the update's if given.
C17_UpdateOrConflict ==
    [][call'.op = "update" =>
          LET conflict == dt # None /\ call'.dt # None /\ dt # call'.dt
          IN  /\ (result'.kind = "dt must be the same to update") <=> conflict
              /\ conflict => (duration_dic' = duration_dic /\ dt' = dt)
              /\ ~conflict =>
                    /\ result' = Value(None)
                    /\ MergesInto(duration_dic, call'.entries, duration_dic')
                    /\ dt' = (IF call'.dt # None THEN call'.dt ELSE dt)]_vars

\* an update with another dt was refused on a table holding entries, the update
\* carrying entries itself
C17_Witness ==
    /\ call.op = "update"
    /\ result.kind = "dt must be the same to update"
    /\ call.entries # <<>>
    /\ duration_dic # <<>>
    /\ \E i \in 1..Len(call.entries) :
          /\ Registered(call.entries[i][1], call.entries[i][2])
          /\ duration_dic[<<call.entries[i][1], call.entries[i][2]>>] # call.entries[i][3]

\* ---------------------------------------------------------------- sequencer
\* the accumulated time of qubit q when entry x is reached: the durations of the
\* entries before x on q, from 0
Clock(x, q) ==
    SumSeq([y \in 1..(x - 1) |-> IF On(new_dag[y], q) THEN new_dag[y].duration ELSE 0])
\* some operation finds the qubits it touches at different times
Inconsistent ==
    \E x \in Entries : \E q, r \in Range(new_dag[x].qargs) : Clock(x, q) # Clock(x, r)

\* C18: either sequencer, walking the scheduled circuit with per-qubit times from
\* 0, fails with the scheduler-bug error whenever some operation finds the qubits
\* it touches at different times.
C18_SequencerRejects ==
    (sequenced.by # "" /\ Inconsistent) => sequenced.status = BugInScheduler

\* what holds: the sequencer of qiskit.compiler rejects exactly those circuits
CompilerSequencerRejects ==
    sequenced.by = "compiler" => (sequenced.status = BugInScheduler <=> Inconsistent)

TimedOf(x) ==
    {i \in 1..Len(sequenced.timed_schedules) : sequenced.timed_schedules[i].schedule.index = x}

C20_DurationAssertion ==
    (policy = "asap" /\ sequenced.by # "") =>
        /\ sequenced.status # AssertionError
        /\ sequenced.status = "returned" => sequenced.duration = circuit_duration

\* a forward schedule with padding before a two-qubit gate went through the
\* sequencer of qiskit.compiler
C20_Witness ==
    /\ policy = "asap"
    /\ sequenced.by = "compiler"
    /\ sequenced.status = "returned"
    /\ sequenced.duration > MaxDur
    /\ \E x, l \in Entries :
          /\ x < l
          /\ new_dag[x].node = 0
          /\ Len(new_dag[l].qargs) = 2

\* ---------------------------------------------------------------- appended schedules
\* the latest finish among the placed entries of the schedule
LatestFinish == Max({End(new_dag[x]) : x \in Entries \ Unscheduled(new_dag)})

\* the append wipes the scheduler's value; only scheduling again sets a value
AppendStep ==
    /\ (pc = "done" /\ pc' = "appended") =>
           (circuit_duration = LatestFinish /\ circuit_duration' = None)
    /\ (pc = "appended" /\ circuit_duration' # None) => (pass' = 2 /\ pc' = "done")

\* C21: once an operation is appended to a returned schedule its cached duration
\* is None and stays None until the circuit is scheduled again; up to the append
\* it holds the value the scheduler computed.
C21_AppendInvalidates ==
    /\ [](pc = "appended" => circuit_duration = None)
    /\ [](pc = "done" => circuit_duration = LatestFinish)
    /\ [][AppendStep]_vars

\* a second operation was appended to a schedule that had a duration when returned
C21_Witness ==
    /\ pc = "appended"
    /\ Cardinality(Unscheduled(new_dag)) = 2
    /\ Len(new_dag) > 2
    /\ circuit_duration = None

\* ---------------------------------------------------------------- failed calls
\* C22: a call of the forward scheduler or of the grouper that ends with an
\* exception (not physical, a missing duration, the iteration bound) returns no
\* schedule, complete or partial: it never reaches its return, the duration of the
\* output is never set, and the call does not go on after the exception.
C22_AllOrNothing ==
    /\ [](raised # "" => (pc = "error" /\ circuit_duration = None))
    /\ [](pc = "error" => raised \in {NotPhysical, MissingDuration, IterationBound,
                                      EmptyMax})
    /\ [][pc = "error" => pc' = "error"]_vars

\* the forward scheduler had placed an operation, and stored its duration on it,
\* when the duration of the next one was missing
C22_Witness ==
    /\ policy = "asap"
    /\ pc = "error"
    /\ raised = MissingDuration
    /\ Len(new_dag) = 1
    /\ dag.ops[1].duration # None

\* the grouper had emitted a Timestep when it raised at the iteration bound
C22_WitnessBound ==
    /\ policy = "timestep"
    /\ pc = "error"
    /\ raised = IterationBound
    /\ new_dag # <<>>

\* ---------------------------------------------------------------- mirrored grouper
AlapTimestepReturned == pc = "done" /\ policy = "alaptimestep"

\* the operation of the caller's circuit that node n of the mirrored circuit is
Unmirrored(n) == Len(dag.ops) + 1 - n

\* C23: in the output of ALAPTimestepSchedule.run the blocks come in the reverse
\* of the order the grouper produced them on the mirrored circuit, every Timestep
\* comes after all operations and padding of its block, the output ends with a
\* Timestep, and operations sharing a qubit are in the order of the input.
C23_MirroredBlocks ==
    AlapTimestepReturned =>
        /\ \A x, y \in Entries : x < y => new_dag[x].step >= new_dag[y].step
        /\ \A x \in Markers :
              /\ x > 1
              /\ ~ (x - 1) \in Markers
              /\ \A y \in Entries : new_dag[y].step = new_dag[x].step => y <= x
        /\ \A s \in {new_dag[y].step : y \in Entries} :
              Cardinality({x \in Markers : new_dag[x].step = s}) = 1
        /\ new_dag # <<>> => Len(new_dag) \in Markers
        /\ \A i \in 1..Len(dag.ops) :
              Cardinality({x \in Entries : new_dag[x].node # 0
                                            /\ Unmirrored(new_dag[x].node) = i}) = 1
        /\ \A x, y \in Entries :
              (/\ x < y
               /\ new_dag[x].node # 0
               /\ new_dag[y].node # 0
               /\ Shares(new_dag[x], new_dag[y]))
                  => Unmirrored(new_dag[x].node) < Unmirrored(new_dag[y].node)

\* three operations came back in two blocks of different lengths, the block the
\* grouper made second now first
C23_Witness ==
    /\ AlapTimestepReturned
    /\ Len(dag.ops) = 3
    /\ Cardinality(Markers) = 2
    /\ \E x, y \in Markers :
          /\ x < y
          /\ new_dag[x].step = 2
          /\ new_dag[y].step = 1
          /\ new_dag[x].length # new_dag[y].length
    /\ \E x \in Entries : new_dag[x].node = 0 /\ new_dag[x].name = "delay"

\* what the grouper computed on the mirrored circuit is the sum of the lengths
GrouperDurationIsSum ==
    AlapTimestepReturned => elapsed = SumLengths(Markers)

\* C24: the schedule ALAPTimestepSchedule.run returns has as its duration the sum
\* of the lengths of its Timesteps, the duration the grouper computed for the
\* mirrored circuit.
C24_MirroredDuration ==
    AlapTimestepReturned =>
        /\ circuit_duration = SumLengths(Markers)
        /\ circuit_duration = elapsed

\* ---------------------------------------------------------------- ALAP padding
\* the input operations on q, and the padding on q, as entries of the schedule
OpsOn(q) == {x \in Entries : new_dag[x].node # 0 /\ On(new_dag[x], q)}
PadsOn(q) == {x \in Entries : new_dag[x].node = 0 /\ On(new_dag[x], q)}

\* qubits that carry operations, all of them on that qubit alone
OnlySingles == {q \in DeclaredQubits :
                   /\ OpsOn(q) # {}
                   /\ \A x \in OpsOn(q) : Len(new_dag[x].qargs) = 1}

IdleTime(q) == circuit_duration - SumEntryDurations(OpsOn(q))

\* C25: in a mirror-derived ALAP schedule the padding comes first: a qubit that
\* carries only single-qubit operations has all its idle time in one Delay from
\* tick 0, ahead of its operations, and its last operation ends at the schedule's
\* duration.
C25_LeadingPadding ==
    AlapReturned =>
        \A q \in OnlySingles :
            /\ Max({End(new_dag[x]) : x \in OpsOn(q)}) = circuit_duration
            /\ Min({new_dag[x].start : x \in OpsOn(q)}) = IdleTime(q)
            /\ IdleTime(q) = 0 => PadsOn(q) = {}
            /\ IdleTime(q) > 0 =>
                  /\ Cardinality(PadsOn(q)) = 1
                  /\ \A p \in PadsOn(q) :
                        /\ new_dag[p].name = "delay"
                        /\ new_dag[p].start = 0
                        /\ new_dag[p].duration = IdleTime(q)
                        /\ \A x \in OpsOn(q) : p < x

\* a short and a long gate on disjoint qubits: the short one starts after a Delay
\* of the difference
C25_Witness ==
    /\ AlapReturned
    /\ Len(dag.ops) = 2
    /\ circuit_duration = MaxDur
    /\ OnlySingles = {0, 1}
    /\ \E p \in PadsOn(0) : new_dag[p].start = 0 /\ new_dag[p].duration = MaxDur - 1
    /\ \E x \in OpsOn(0) : new_dag[x].start = MaxDur - 1 /\ new_dag[x].duration = 1
    /\ PadsOn(1) = {}

\* ---------------------------------------------------------------- shared operations
\* C26: after a successful run of the forward scheduler every operation of the
\* input carries its resolved duration, and the operations of the returned
\* schedule are the input's own operation objects: each input operation is in
\* the schedule once, and what the schedule shows of it is what the input holds.
C26_Destructive ==
    AsapReturned =>
        /\ \A i \in 1..Len(dag.ops) :
              /\ dag.ops[i].duration # None
              /\ dag.ops[i].duration = dag.ops[i].len
              /\ Cardinality({x \in Entries : new_dag[x].node = i}) = 1
        /\ \A x \in Entries :
              new_dag[x].node # 0 =>
                  /\ new_dag[x].node \in 1..Len(dag.ops)
                  /\ OpOfEntry(dag.ops, new_dag[x]) = dag.ops[new_dag[x].node]
                  /\ new_dag[x].name = dag.ops[new_dag[x].node].name
                  /\ new_dag[x].qargs = dag.ops[new_dag[x].node].qargs
                  /\ new_dag[x].duration = dag.ops[new_dag[x].node].duration

\* the first call returned a schedule of three gates, which had no duration of
\* their own before
C26_Witness ==
    /\ AsapReturned
    /\ pass = 1
    /\ Len(dag.ops) = 3
    /\ \A i \in 1..3 : dag.ops[i].name = "gate" /\ dag.ops[i].duration \in Durations
    /\ \E i \in 1..3 : dag.ops[i].duration = MaxDur

\* ---------------------------------------------------------------- admission
\* an iteration of the grouper's loop has just closed a Timestep
ClosesTimestep == pc = "loop" /\ Len(new_dag') > Len(new_dag)

\* node n, with the duration it had when the Timestep was closed, fits into what
\* the closed Timestep left of every qubit it acts on
FitsLeft(n) ==
    \A q \in Range(residual_dag.ops[n].qargs) : residual_dag.ops[n].duration <= timelimit'[q]

\* C27: when a Timestep is closed, no operation left in the frontier (gate or
\* Delay) has a duration that fits into the remaining budget of every qubit it
\* acts on.
C27_AdmissionMaximal ==
    [][ClosesTimestep => \A n \in frontier' : ~FitsLeft(n)]_vars

\* ---------------------------------------------------------------- termination
\* an iteration that closes a Timestep takes an operation out of the residual DAG
RemovesOne ==
    (pc = "loop" /\ frontier # {} /\ new_dag' # new_dag) =>
        Cardinality(residual_dag'.removed) > Cardinality(residual_dag.removed)

\* C28: every iteration of the grouper's loop that starts with a non-empty
\* frontier removes at least one operation from the residual DAG, so there are
\* never more Timesteps than operations and the call comes to its end with the
\* frontier empty and every operation emitted.
C28_Terminates ==
    /\ [][RemovesOne]_vars
    /\ [](Cardinality(Markers) <= Len(dag.ops))
    /\ <>(/\ pc \in {"done", "error"}
          /\ frontier = {}
          /\ residual_dag.removed = 1..Len(dag.ops))

\* the same without the fairness of SpecTimestepLive, for every circuit: an
\* iteration removes an operation, and a call that has ended has an empty frontier
RemovesOneAlways ==
    /\ [][RemovesOne]_vars
    /\ [](Cardinality(Markers) <= Len(dag.ops))
    /\ [](pc \in {"done", "error"} /\ raised # MissingDuration =>
              (frontier = {} /\ residual_dag.removed = 1..Len(dag.ops)))

\* operations in a row on one of two qubits: as many Timesteps as operations
C28_Witness ==
    /\ pc = "done"
    /\ policy = "timestep"
    /\ Len(dag.ops) = MaxOps - 1
    /\ Cardinality(Markers) = MaxOps - 1
    /\ frontier = {}

\* ---------------------------------------------------------------- delays
\* the Delays the grouper holds: those it emitted (operations and idle padding)
\* and those still in the residual DAG
EmittedDelays == {new_dag[x] : x \in {y \in Entries : new_dag[y].name = "delay"}}
ResidualDelays ==
    IF pc = "start" THEN {}
    ELSE {residual_dag.ops[n] : n \in {i \in 1..Len(residual_dag.ops) :
                                          /\ i \notin residual_dag.removed
                                          /\ IsDelay(residual_dag.ops[i])}}

\* C29: in every state of the grouper every Delay, emitted, padded or left in the
\* residual DAG after a split, is on exactly one qubit and has a duration >= 0.
C29_DelaysWellFormed ==
    \A d \in EmittedDelays \cup ResidualDelays :
        /\ Len(d.qargs) = 1
        /\ d.duration >= 0

\* ---------------------------------------------------------------- precedence
\* The tick an entry of a returned schedule starts at: the one the forward
\* scheduler placed it at; for the grouper, whose output carries no ticks, the
\* accumulated time of the entry's first qubit, as the sequencers read it.
StartOf(x) ==
    IF policy = "asap" THEN new_dag[x].start ELSE Clock(x, new_dag[x].qargs[1])

\* pairs of input operations that share a qubit, the first earlier in the input
Ordered(x, y) ==
    /\ new_dag[x].node # 0
    /\ new_dag[y].node # 0
    /\ new_dag[x].node < new_dag[y].node
    /\ Shares(new_dag[x], new_dag[y])

KeepsOrder == \A x, y \in Entries : Ordered(x, y) => x < y

StartsAfter ==
    \A x, y \in Entries : Ordered(x, y) => StartOf(y) >= StartOf(x) + new_dag[x].duration

\* both passes keep operations that share a qubit in the input's order
BothKeepOrder == pc = "done" => KeepsOrder

\* the forward scheduler starts the later one no earlier than the earlier ends
ForwardPrecedence == AsapReturned => (KeepsOrder /\ StartsAfter)

\* C30: in the output of the forward scheduler and of the grouper, any two input
\* operations that share a qubit are in the input's relative order, and the later
\* one starts no earlier than the earlier one finishes.
C30_Precedence ==
    pc = "done" => (KeepsOrder /\ StartsAfter)

\* ---------------------------------------------------------------- cross-check
\* C31: every schedule of the forward scheduler passes the sequencer's
\* cross-check: in the walk, at every entry the accumulated times of all qubits
\* it touches are equal, and equal to the start tick the scheduler gave it.
C31_CrossCheckPasses ==
    AsapReturned =>
        /\ \A x \in Entries : \A q \in Range(new_dag[x].qargs) :
              Clock(x, q) = new_dag[x].start
        /\ sequenced.by = "compiler" =>
              /\ sequenced.status # BugInScheduler
              /\ Len(sequenced.start_times) = Len(new_dag)
              /\ \A x \in Entries : sequenced.start_times[x] = new_dag[x].start

\* the walk went over a two-qubit gate that starts late, one of its qubits
\* padded up to it, the other busy up to it
C31_Witness ==
    /\ AsapReturned
    /\ sequenced.by = "compiler"
    /\ sequenced.status = "returned"
    /\ \E x, y, z \in Entries :
          /\ x < y /\ y < z
          /\ new_dag[x].node # 0 /\ new_dag[x].duration = MaxDur
          /\ new_dag[y].node = 0 /\ new_dag[y].duration = MaxDur
          /\ Len(new_dag[z].qargs) = 2
          /\ sequenced.start_times[z] = MaxDur

\* ---------------------------------------------------------------- the grouper's input
\* every operation of the input is as the caller built it: a gate without a
\* duration of its own, a Delay with the duration it was constructed with
InputAsGiven ==
    \A i \in 1..Len(dag.ops) :
        dag.ops[i].duration = IF IsDelay(dag.ops[i]) THEN dag.ops[i].len ELSE None

\* C32: the grouper leaves its input unchanged: through a run, returned or
\* raised, every operation of the input, each split Delay included, keeps its
\* duration, and the input's operations and their order stay as they were.
C32_InputUnchanged ==
    /\ [](InputAsGiven)
    /\ [][dag' = dag]_vars

\* the run is over; in the residual copy a gate got its duration and a Delay was
\* truncated by a split
C32_Witness ==
    /\ pc \in {"done", "error"}
    /\ policy = "timestep"
    /\ \E n \in 1..Len(dag.ops) :
          /\ IsDelay(dag.ops[n])
          /\ \E x \in Entries : new_dag[x].node = n /\ new_dag[x].duration < dag.ops[n].duration
    /\ \E n \in 1..Len(dag.ops) :
          ~IsDelay(dag.ops[n]) /\ residual_dag.ops[n].duration # None

\* ---------------------------------------------------------------- empty circuits
\* a returned schedule without entries and of duration 0
EmptySchedule == pc = "done" => (circuit_duration = 0 /\ new_dag = <<>>)

\* the grouper on a circuit without operations returns the empty schedule
GrouperOnEmpty ==
    (policy = "timestep" /\ Len(dag.ops) = 0) => (pc # "error" /\ EmptySchedule)

\* C33: on a physical circuit without operations the forward scheduler and the
\* grouper do not fail; each returns a schedule of duration 0 with no Delay and
\* no Timestep.
C33_EmptyProgram ==
    Len(dag.ops) = 0 => (pc # "error" /\ EmptySchedule)

\* ---------------------------------------------------------------- shared lookups
\* what the lookup of worker w returns when it runs alone on the table
Alone(w) == Get(duration_dic, call[w].name, call[w].qubits)

\* C34: a lookup never changes the table's entries or its dt, so however the
\* lookups of concurrent calls on one shared table interleave (nobody updating
\* it), each returns what it would return when run alone.
C34_LookupReadOnly ==
    /\ [][duration_dic' = duration_dic /\ dt' = dt]_vars
    /\ [](\A w \in Workers : call[w].op = "returned" => result[w] = Alone(w))

\* two lookups of the same missing key overlap: one has raised KeyError while
\* the other, past the test of the name, is still to index the table
C34_Witness ==
    /\ call[1].op = "index"
    /\ call[2].op = "returned"
    /\ result[2].kind = "KeyError"
    /\ call[1].name = call[2].name
    /\ call[1].qubits = call[2].qubits
    /\ duration_dic # <<>>

\* ---------------------------------------------------------------- alignment
\* no two instructions of the schedule overlap on a channel they share
NoOverlap(sched) ==
    \A e \in sched : \A x \in sched :
        (e.index # x.index /\ e.channels \cap x.channels # {})
            => (StopOf(e) <= x.start \/ StopOf(x) <= e.start)

\* the latest stop, on the channels of e, of the instructions given before e
StopBefore(sched, e) ==
    Max({0} \cup {StopOf(x) : x \in {y \in sched : /\ y.index < e.index
                                                   /\ y.channels \cap e.channels # {}}})

AlignLeftReturned == pc = "done" /\ policy = "align_left"
AlignRightReturned == pc = "done" /\ policy = "align_right"

\* C35: align_left inserts every component at the maximum stop time of the
\* schedule built so far over the component's channels, so that its instruction
\* starts there (after its own offset inside the component at the latest), and
\* no two instructions overlap on a channel; also for components whose first
\* instruction has a non-zero start offset.
C35_PushAppendAtMaxStop ==
    AlignLeftReturned =>
        /\ NoOverlap(aligned)
        /\ \A e \in aligned :
              /\ StopBefore(aligned, e) <= e.start
              /\ e.start <= StopBefore(aligned, e) + instructions[e.index].offset

\* the instructions of a schedule, without their times
Untimed(sched) == {[index |-> e.index, channels |-> e.channels, duration |-> e.duration] :
                     e \in sched}

\* on every channel the instructions start in the order they were given
InputOrder(sched) ==
    \A e \in sched : \A x \in sched :
        (e.index < x.index /\ e.channels \cap x.channels # {}) => StopOf(e) <= x.start

\* C36: align_right returns the instructions of align_left with the same total
\* duration, no two of them overlapping on a shared channel, in the order of the
\* inputs on every channel, the latest of them ending at the total duration;
\* also when an instruction spans channels of different left-aligned lengths.
C36_AlignRight ==
    AlignRightReturned =>
        /\ Untimed(aligned) = Untimed(align_left(instructions))
        /\ duration(aligned) = duration(align_left(instructions))
        /\ NoOverlap(aligned)
        /\ InputOrder(aligned)
        /\ \A e \in aligned : e.start >= 0

\* align_left of bare instructions: each starts at the latest stop before it
LeftWithoutOffsets ==
    (AlignLeftReturned /\ \A i \in 1..Len(instructions) : instructions[i].offset = 0)
        => /\ NoOverlap(aligned)
           /\ \A e \in aligned : e.start = StopBefore(aligned, e)

\* align_right of instructions on one channel each
RightSingleChannel ==
    (AlignRightReturned
        /\ \A i \in 1..Len(instructions) : Cardinality(instructions[i].channels) = 1)
        => /\ duration(aligned) = duration(align_left(instructions))
           /\ NoOverlap(aligned)
           /\ InputOrder(aligned)
           /\ \A ch \in channels(aligned) : ch_stop_time(aligned, ch) = duration(aligned)

\* ---------------------------------------------------------------- the two quantized passes
\* the lengths of a schedule's Timesteps, by the iteration that closed them
TimestepLengths(sched) ==
    {<<sched[i].step, sched[i].length>> : i \in {j \in 1..Len(sched) : sched[j].name = "timestep"}}

\* the circuit's operations in each Timestep
TimestepOps(sched) ==
    {<<sched[i].step, sched[i].node>> : i \in {j \in 1..Len(sched) : sched[j].node # 0}}

\* a result of TimestepsASAPSchedule agrees with what ASAPTimestepSchedule ended with
Agrees(r) ==
    \/ pc = "error" /\ r.status = "error"
    \/ /\ pc = "done"
       /\ r.status = "done"
       /\ TimestepLengths(r.new_dag) = TimestepLengths(new_dag)
       /\ TimestepOps(r.new_dag) = TimestepOps(new_dag)
       /\ r.duration = circuit_duration

BothQuantizedRan == policy = "timestep" /\ pc \in {"done", "error"} /\ quantized.status # ""

\* C37: on a circuit without Delay, ASAPTimestepSchedule and TimestepsASAPSchedule
\* both return schedules with the same Timestep lengths, the same operations in
\* each Timestep and the same duration, or both fail.
C37_QuantizedPassesAgree == BothQuantizedRan => Agrees(quantized)

\* whatever order the frontier comes in, TimestepsASAPSchedule has a result that
\* agrees with ASAPTimestepSchedule's
AgreesInSomeOrder ==
    BothQuantizedRan => \E r \in TimestepsAsapRun(dag, qregs) : Agrees(r)

\* on a single qubit the two passes agree whenever both return
AgreeWhenBothReturn ==
    (BothQuantizedRan /\ pc = "done" /\ quantized.status = "done" /\ dag.num_qubits = 1)
        => Agrees(quantized)

====
